---- MODULE Spec2Model ----
(***************************************************************************)
(* Task manager backend: the task store with cursor pagination             *)
(* (tasks/repository.py, tasks/service.py), the user store with its        *)
(* uniqueness checks (users/service.py, users/repository.py) and the       *)
(* bearer-token verifier (users/jwt.py, users/security.py).                *)
(*                                                                         *)
(* Identifiers are UUIDv7 strings in the program; their text order is the  *)
(* order of the 128-bit numbers, so an id is modelled by a positive        *)
(* integer and the generator by a counter.  0 stands for "no cursor"       *)
(* (None or the empty string, both falsy in `if cursor:`).                 *)
(***************************************************************************)
EXTENDS Integers, Sequences, FiniteSets, TLC

\* ------------------------------------------------------------------ bounds
MaxId == 3
\* largest id the generator hands out
MaxLimit == 2
\* largest page size a request asks for
MaxBoot == 1
\* latest start time of a worker process that wrote rows of the store
MaxRows == 2
\* most rows of an imported CSV file

\* --------------------------------------------------------------- constants
MinLimit == 1
\* TaskPaginationRequest.limit: ge=1
MaxPageLimit == 100
\* TaskPaginationRequest.limit: le=100
DefaultLimit == 20
\* TaskPaginationRequest.limit: default=20
ExportCeiling == 1000
\* export_tasks_csv: min(pagination.limit or 1000, 1000)

None == "none"
NoCursor == 0

Owners == {"u1", "u2"}
TaskStatus == {"todo", "in_progress", "done"}
TaskPriority == {"low", "medium", "high", "urgent"}
Titles == {"t1", "t2"}
NoTime == -1
Times == 0..MaxBoot

VARIABLES
    tasks,      \* committed rows of the tasks table
    nextId,     \* state of the UUIDv7 generator
    pending,    \* Task objects built by create() and not yet committed
    bootTime,   \* the created_at/updated_at column default: models.py evaluates
                \* datetime.now() once, when the worker process imports it
    pg,         \* a client paginating through GET /tasks
    q,          \* arguments and result of the last single get_list call
    resp,       \* caller and result of the last repository, service or route call
    users,      \* items of the "users" collection
    nextUid,    \* state of the UUIDv7 generator of user ids
    reqs,       \* per worker, the UserService call it is executing
    now,        \* the clock jwt compares exp with, in periods of 30 minutes
    secret,     \* settings.secret_key
    areq,       \* a request to a protected route on its way through the verifier
    sess,       \* the last call of a token endpoint and what it answered
    calls,      \* per thread, the TaskService call it is executing
    db,         \* the sessions get_db has made and who holds them
    steady,     \* ids of the rows that have matched the client's listing, untouched,
                \* since its pagination began
    imp         \* the CSV import job: its rows, its position and its counts

taskVars == <<tasks, nextId, pending, bootTime, pg, q, resp>>
userVars == <<users, nextUid, reqs>>
authVars == <<now, secret, areq>>
sessVars == <<sess>>
jobVars == <<imp, calls, db, steady>>
storeVars == <<tasks, nextId, pending, bootTime, pg, q>>
acctVars == <<users, nextUid, reqs, now, secret, areq, sess>>
vars == <<tasks, nextId, pending, bootTime, pg, q, resp,
          users, nextUid, reqs, now, secret, areq, sess, imp, calls, db, steady>>

\* ------------------------------------------------------------ task rows
Row(id, owner_id, title, description, status, priority, created_at, updated_at) ==
    [id |-> id, owner_id |-> owner_id, title |-> title, description |-> description,
     status |-> status, priority |-> priority,
     created_at |-> created_at, updated_at |-> updated_at]

Ids(S) == {t.id : t \in S}

NoFilters ==
    [status |-> None, priority |-> None,
     created_after |-> NoTime, created_before |-> NoTime,
     updated_after |-> NoTime, updated_before |-> NoTime]

Min(a, b) == IF a <= b THEN a ELSE b

\* ORDER BY tasks.id: the rows of S as a sequence, ascending by id
RECURSIVE OrderById(_)
OrderById(S) ==
    IF S = {} THEN <<>>
    ELSE LET m == CHOOSE t \in S : \A u \in S : t.id <= u.id
         IN  <<m>> \o OrderById(S \ {m})

\* a bug: the range bounds are exclusive
ApplyFiltersExclusive(S, filters) ==
    {t \in S :
        /\ filters.status # None => t.status = filters.status
        /\ filters.priority # None => t.priority = filters.priority
        /\ filters.created_after # NoTime => t.created_at > filters.created_after
        /\ filters.created_before # NoTime => t.created_at < filters.created_before
        /\ filters.updated_after # NoTime => t.updated_at > filters.updated_after
        /\ filters.updated_before # NoTime => t.updated_at < filters.updated_before}

\* the WHERE clauses get_list adds for the filters; a filter object with no
\* field set stands for filters=None, which the service passes in that case
ApplyFilters(S, filters) ==
    IF filters = NoFilters THEN S
    ELSE {t \in S :
            /\ filters.status # None => t.status = filters.status
            /\ filters.priority # None => t.priority = filters.priority
            /\ filters.created_after # NoTime => t.created_at >= filters.created_after
            /\ filters.created_before # NoTime => t.created_at <= filters.created_before
            /\ filters.updated_after # NoTime => t.updated_at >= filters.updated_after
            /\ filters.updated_before # NoTime => t.updated_at <= filters.updated_before}

\* a bug: the cursor row itself is fetched again
ApplyCursorInclusive(S, cursor) ==
    IF cursor # NoCursor THEN {t \in S : t.id >= cursor} ELSE S

\* a bug: the cursor is looked up as a row, and a missing row restarts the listing
ApplyCursorAsRow(S, cursor) ==
    IF cursor # NoCursor /\ (\E t \in S : t.id = cursor)
    THEN {t \in S : t.id > cursor} ELSE S

\* the WHERE clause get_list adds for the cursor
ApplyCursor(S, cursor) ==
    IF cursor # NoCursor THEN {t \in S : t.id > cursor} ELSE S

\* a bug: only `limit` rows are fetched, so has_more is never set
GetListNoOverfetch(store, owner_id, cursor, limit, filters) ==
    LET owned    == {t \in store : t.owner_id = owner_id}
        filtered == ApplyFilters(owned, filters)
        ordered  == OrderById(ApplyCursor(filtered, cursor))
        fetched  == SubSeq(ordered, 1, Min(limit, Len(ordered)))
        has_more == Len(fetched) > limit
        items    == IF has_more THEN SubSeq(fetched, 1, Len(fetched) - 1) ELSE fetched
        next_cursor == IF Len(items) > 0 /\ has_more THEN items[Len(items)].id ELSE NoCursor
    IN  [items |-> items, next_cursor |-> next_cursor, has_more |-> has_more]

\* TaskRepository.get_list
GetList(store, owner_id, cursor, limit, filters) ==
    LET owned    == {t \in store : t.owner_id = owner_id}
        filtered == ApplyFilters(owned, filters)
        ordered  == OrderById(ApplyCursor(filtered, cursor))
        fetched  == SubSeq(ordered, 1, Min(limit + 1, Len(ordered)))
        has_more == Len(fetched) > limit
        items    == IF has_more THEN SubSeq(fetched, 1, Len(fetched) - 1) ELSE fetched
        next_cursor == IF Len(items) > 0 /\ has_more THEN items[Len(items)].id ELSE NoCursor
    IN  [items |-> items, next_cursor |-> next_cursor, has_more |-> has_more]

\* TaskService.get_list: the filter object is built only when a field is set
ServiceGetList(store, owner_id, cursor, limit, fields) ==
    LET filters == IF fields = NoFilters THEN NoFilters ELSE fields
        r == GetList(store, owner_id, cursor, limit, filters)
    IN  [data |-> r.items, next_cursor |-> r.next_cursor, has_more |-> r.has_more]

\* ------------------------------------------------- the paginating client
\* A client that follows next_cursor: what it asked for, what it was given,
\* and what happened to the store while it was paginating.
PgIdle ==
    [state |-> "idle", owner |-> "u1", limit |-> MinLimit, fields |-> NoFilters,
     cursor |-> NoCursor, pages |-> <<>>, more |-> <<>>, cursors |-> <<>>,
     rem |-> <<>>, mut |-> {}, since |-> {}, prior |-> {}, born |-> {}]

RECURSIVE Flatten(_)
Flatten(pages) ==
    IF pages = <<>> THEN <<>> ELSE Head(pages) \o Flatten(Tail(pages))

Range(s) == {s[i] : i \in 1..Len(s)}
Seen(p) == Range(Flatten(p.pages))
IdsOf(items) == [i \in 1..Len(items) |-> items[i].id]

\* a row satisfies every filter field that is set (bounds inclusive)
Matches(t, f) ==
    /\ f.status = None \/ t.status = f.status
    /\ f.priority = None \/ t.priority = f.priority
    /\ f.created_after = NoTime \/ f.created_after <= t.created_at
    /\ f.created_before = NoTime \/ t.created_at <= f.created_before
    /\ f.updated_after = NoTime \/ f.updated_after <= t.updated_at
    /\ f.updated_before = NoTime \/ t.updated_at <= f.updated_before

\* history: a write happened while the client was paginating.  mut collects
\* the kinds of write of the whole run, since the deletions of rows the client
\* already holds since its last request, born the ids committed during the run
Note(p, ev, id) ==
    IF p.state = "idle" THEN p
    ELSE [p EXCEPT
            !.mut = @ \cup {IF ev \in {"delete_cursor", "delete_seen", "delete_unseen"}
                            THEN "delete" ELSE ev},
            !.since = IF ev \in {"delete_cursor", "delete_seen"} THEN @ \cup {ev} ELSE @,
            !.born = IF ev \in {"create", "late"} THEN @ \cup {id} ELSE @]

\* ------------------------------------------------------ task operations
\* TaskRepository._generate_task_id: uuid7() is monotonic, one value per call
GenerateTaskId(n) == n

\* TaskRepository.create, up to db.add: the id is generated and the Task built
CreateBegin(owner_id, title, description, status, priority) ==
    /\ nextId <= MaxId
    /\ LET task_id == GenerateTaskId(nextId)
       IN  pending' = pending \cup
               {Row(task_id, owner_id, title, description, status, priority,
                    bootTime, bootTime)}
    /\ nextId' = nextId + 1
    /\ UNCHANGED <<tasks, bootTime, pg, q>>

\* TaskRepository.create, db.commit: the row becomes visible to other sessions
CreateCommit(t) ==
    /\ t \in pending
    /\ tasks' = tasks \cup {t}
    /\ pending' = pending \ {t}
    /\ pg' = Note(pg, IF \E u \in tasks : u.id > t.id THEN "late" ELSE "create", t.id)
    /\ UNCHANGED <<nextId, bootTime, q>>

\* a bug: every field of the row is assigned, the ones not supplied too
UpdatedWhole(t, data, stamp) ==
    [t EXCEPT !.title = data.title, !.description = data.description,
              !.priority = data.priority, !.status = data.status,
              !.updated_at = stamp]

\* the row TaskRepository.update leaves: only the supplied fields are assigned;
\* onupdate stamps updated_at when an UPDATE is emitted
Updated(t, data, stamp) ==
    LET u == [t EXCEPT
                !.title = IF data.title # None THEN data.title ELSE @,
                !.description = IF data.description # None THEN data.description ELSE @,
                !.priority = IF data.priority # None THEN data.priority ELSE @,
                !.status = IF data.status # None THEN data.status ELSE @]
    IN  IF u = t THEN t ELSE [u EXCEPT !.updated_at = stamp]

\* a bug: the row is looked up by id alone
FindAnyOwner(store, task_id, owner_id) ==
    {t \in store : t.id = task_id}

\* the rows the query filter(Task.id == task_id, Task.owner_id == owner_id) selects
FindOwned(store, task_id, owner_id) ==
    {t \in store : t.id = task_id /\ t.owner_id = owner_id}

\* TaskRepository.get_by_id
GetById(task_id, owner_id) ==
    UNCHANGED <<tasks, nextId, pending, bootTime, pg, q>>

\* TaskRepository.update
Update(task_id, data, owner_id) ==
    LET found == FindOwned(tasks, task_id, owner_id)
    IN  IF found = {}
        THEN UNCHANGED <<tasks, nextId, pending, bootTime, pg, q>>
        ELSE LET t == CHOOSE x \in found : TRUE
             IN  /\ tasks' = (tasks \ {t}) \cup {Updated(t, data, bootTime)}
                 /\ pg' = Note(pg, "update", task_id)
                 /\ UNCHANGED <<nextId, pending, bootTime, q>>

\* TaskRepository.delete
Delete(task_id, owner_id) ==
    LET found == FindOwned(tasks, task_id, owner_id)
    IN  IF found = {}
        THEN UNCHANGED <<tasks, nextId, pending, bootTime, pg, q>>
        ELSE /\ tasks' = tasks \ found
             /\ pg' = Note(pg, IF task_id = pg.cursor THEN "delete_cursor"
                               ELSE IF task_id \in Seen(pg) THEN "delete_seen"
                               ELSE "delete_unseen", task_id)
             /\ UNCHANGED <<nextId, pending, bootTime, q>>

\* what each repository call hands back to its caller: the rows it reveals
\* and whether it reports success
Reply(op, store, task_id, data, owner_id, stamp) ==
    LET found == FindOwned(store, task_id, owner_id)
    IN  [op |-> op, caller |-> owner_id, task_id |-> task_id,
         rows |-> CASE op = "get_by_id" -> found
                    [] op = "update" -> {Updated(t, data, stamp) : t \in found}
                    [] OTHER -> {},
         ok |-> found # {}]

NoReply == [op |-> "none", caller |-> "u1", task_id |-> NoCursor, rows |-> {}, ok |-> TRUE]

\* ---- TaskService: what get_task, update_task and delete_task answer
\* an empty task id, for which the service raises 400
NoTaskId == 0

\* HTTPException(status_code, detail) raised by the service
TaskError(op, task_id, owner_id, status_code, detail) ==
    [op |-> op, caller |-> owner_id, task_id |-> task_id, rows |-> {},
     ok |-> FALSE, status |-> status_code, detail |-> detail]

\* the answer of a service call: 400 for an empty id, 404 when
\* repository.get_by_id(task_id, owner_id) finds nothing, else what the
\* repository call returns
ServiceAnswer(op, store, task_id, data, owner_id, stamp) ==
    IF task_id = NoTaskId
    THEN TaskError(op, task_id, owner_id, 400, "Task ID is required")
    ELSE IF FindOwned(store, task_id, owner_id) = {}
    THEN TaskError(op, task_id, owner_id, 404, "Task not found")
    ELSE [op |-> op, caller |-> owner_id, task_id |-> task_id,
          rows |-> CASE op = "get_task" -> FindOwned(store, task_id, owner_id)
                     [] op = "update_task" ->
                          {Updated(t, data, stamp) : t \in FindOwned(store, task_id, owner_id)}
                     [] OTHER -> {},
          ok |-> TRUE, status |-> 200, detail |-> ""]

\* TaskService.get_task
ServiceGetTask(task_id, owner_id) ==
    /\ resp' = ServiceAnswer("get_task", tasks, task_id, None, owner_id, bootTime)
    /\ UNCHANGED <<tasks, nextId, pending, bootTime, pg, q>>

\* TaskService.update_task
ServiceUpdateTask(task_id, data, owner_id) ==
    LET answer == ServiceAnswer("update_task", tasks, task_id, data, owner_id, bootTime)
    IN  /\ resp' = answer
        /\ IF answer.status = 200
           THEN Update(task_id, data, owner_id)
           ELSE UNCHANGED <<tasks, nextId, pending, bootTime, pg, q>>

\* TaskService.delete_task
ServiceDeleteTask(task_id, owner_id) ==
    LET answer == ServiceAnswer("delete_task", tasks, task_id, None, owner_id, bootTime)
    IN  /\ resp' = answer
        /\ IF answer.status = 200
           THEN Delete(task_id, owner_id)
           ELSE UNCHANGED <<tasks, nextId, pending, bootTime, pg, q>>

\* ---- the service calls step by step: requests are served by a pool of
\* ---- threads, each with its own session, so another request's commit can
\* ---- fall between the two repository calls of update_task / delete_task
Threads == {"t1", "t2"}

NoServiceCall ==
    [op |-> "none", pc |-> "idle", task_id |-> NoTaskId, data |-> None,
     owner_id |-> "u1", raised |-> {}, rows |-> {}, deleted |-> FALSE]

\* raise HTTPException(status_code, detail)
ServiceRaise(call, status_code, detail) ==
    [call EXCEPT !.pc = "done", !.raised = {[status |-> status_code, detail |-> detail]}]

\* update_task / delete_task up to the existence check: 400 for an empty id,
\* 404 when repository.get_by_id(task_id, owner_id) finds nothing
ServiceCheck(w, op, task_id, data, owner_id) ==
    /\ calls[w].pc \in {"idle", "done"}
    /\ LET call == [NoServiceCall EXCEPT !.op = op, !.task_id = task_id,
                                         !.data = data, !.owner_id = owner_id]
       IN  calls' = [calls EXCEPT ![w] =
                       IF task_id = NoTaskId
                       THEN ServiceRaise(call, 400, "Task ID is required")
                       ELSE IF FindOwned(tasks, task_id, owner_id) = {}
                       THEN ServiceRaise(call, 404, "Task not found")
                       ELSE [call EXCEPT !.pc = "mutate"]]
    /\ UNCHANGED <<tasks, nextId, pending, bootTime, pg, q>>

\* return self.repository.update(...) / return self.repository.delete(...):
\* what the repository call returns is returned as it is
ServiceReturn(call, rows, deleted) ==
    [call EXCEPT !.pc = "done", !.rows = rows, !.deleted = deleted]

\* update_task / delete_task after the check: the repository call, which
\* queries the row again and returns None / False when it is not there
ServiceMutate(w) ==
    /\ calls[w].pc = "mutate"
    /\ LET c == calls[w]
           found == FindOwned(tasks, c.task_id, c.owner_id)
       IN  IF c.op = "update_task"
           THEN /\ Update(c.task_id, c.data, c.owner_id)
                /\ calls' = [calls EXCEPT ![w] =
                      ServiceReturn(c, {Updated(t, c.data, bootTime) : t \in found}, FALSE)]
           ELSE /\ Delete(c.task_id, c.owner_id)
                /\ calls' = [calls EXCEPT ![w] = ServiceReturn(c, {}, found # {})]

\* ---- CSV import
\* a row of the file as csv.DictReader yields it: the title and status cells
\* vary, "" is a blank title and "bogus" a status TaskStatus does not have
CsvRow(title, status) == [title |-> title, status |-> status, priority |-> "medium"]
CsvRowInputs == {CsvRow(t, st) : t \in {"t1", ""}, st \in {"todo", "bogus"}}

\* the uploaded bytes: whether they decode as UTF-8, and the rows they hold
CsvContents ==
    {[decodable |-> FALSE, rows |-> <<>>]} \cup
    {[decodable |-> TRUE, rows |-> r] :
        r \in UNION {[1..n -> CsvRowInputs] : n \in 0..MaxRows}}

\* TaskFileHandler.validate_csv_row: the title cell is not blank
ValidateCsvRow(row) == row.title # ""

\* TaskFileHandler.row_to_task_create: TaskCreate(...) or ValueError when a
\* cell is not a value of its enum
RowToTaskCreate(row) ==
    [ok |-> row.status \in TaskStatus /\ row.priority \in TaskPriority,
     title |-> row.title, description |-> None,
     status |-> row.status, priority |-> row.priority]

\* TaskImportResult, or the HTTPException 400 of an undecodable file
ImportResult(status_code, success_count, error_count) ==
    [status |-> status_code, success_count |-> success_count,
     error_count |-> error_count, total_processed |-> success_count + error_count]

ImportIdle ==
    [pc |-> "idle", owner |-> "u1", decodable |-> TRUE, rows |-> <<>>, i |-> 1,
     success_count |-> 0, error_count |-> 0, task_id |-> NoCursor, created |-> {},
     result |-> ImportResult(0, 0, 0)]

\* process_csv_import calls import_tasks_csv: the counters are zeroed and
\* parse_csv decodes the bytes; a ValueError from it ends the call with 400
ImportStart(owner_id, content) ==
    /\ imp.pc = "idle"
    /\ imp' = IF content.decodable
              THEN [ImportIdle EXCEPT !.pc = "row", !.owner = owner_id,
                                      !.rows = content.rows]
              ELSE [ImportIdle EXCEPT !.pc = "done", !.owner = owner_id,
                                      !.decodable = FALSE,
                                      !.result = ImportResult(400, 0, 0)]
    /\ UNCHANGED <<tasks, nextId, pending, bootTime, pg, q>>

\* a bug: a row that is not valid ends the import
ImportRowAborting ==
    /\ imp.pc = "row" /\ imp.i <= Len(imp.rows)
    /\ LET row == imp.rows[imp.i]
           task_data == RowToTaskCreate(row)
       IN  IF ~ValidateCsvRow(row) \/ ~task_data.ok
           THEN /\ imp' = [imp EXCEPT !.pc = "done",
                                      !.result = ImportResult(400, imp.success_count,
                                                              imp.error_count + 1)]
                /\ UNCHANGED <<tasks, nextId, pending, bootTime, pg, q>>
           ELSE /\ CreateBegin(imp.owner, task_data.title, task_data.description,
                               task_data.status, task_data.priority)
                /\ imp' = [imp EXCEPT !.pc = "commit", !.task_id = GenerateTaskId(nextId)]

\* the body of the loop for one row: a row that does not validate or does not
\* convert is counted as an error and the loop goes on; a valid row goes to
\* create_task, up to db.add
ImportRow ==
    /\ imp.pc = "row" /\ imp.i <= Len(imp.rows)
    /\ LET row == imp.rows[imp.i]
           task_data == RowToTaskCreate(row)
       IN  IF ~ValidateCsvRow(row) \/ ~task_data.ok
           THEN /\ imp' = [imp EXCEPT !.error_count = @ + 1, !.i = @ + 1]
                /\ UNCHANGED <<tasks, nextId, pending, bootTime, pg, q>>
           ELSE /\ CreateBegin(imp.owner, task_data.title, task_data.description,
                               task_data.status, task_data.priority)
                /\ imp' = [imp EXCEPT !.pc = "commit", !.task_id = GenerateTaskId(nextId)]

\* create_task returns, after db.commit: the row is counted as a success
ImportCommit ==
    /\ imp.pc = "commit"
    /\ \E t \in pending :
          /\ t.id = imp.task_id
          /\ CreateCommit(t)
          /\ imp' = [imp EXCEPT !.pc = "row", !.success_count = @ + 1, !.i = @ + 1,
                                !.task_id = NoCursor,
                                !.created = @ \cup {[row |-> imp.i, id |-> t.id]}]

\* the rows are exhausted: TaskImportResult is returned
ImportFinish ==
    /\ imp.pc = "row" /\ imp.i > Len(imp.rows)
    /\ imp' = [imp EXCEPT !.pc = "done",
                          !.result = ImportResult(200, imp.success_count, imp.error_count)]
    /\ UNCHANGED <<tasks, nextId, pending, bootTime, pg, q>>

\* ---- POST /tasks/import/csv: the request, its session and the job it
\* ---- hands to BackgroundTasks
Sessions == {"s1", "s2"}

\* SessionLocal(): a session no one has had before
SessionLocal(made) == CHOOSE s \in Sessions : s \notin made

NoSessions ==
    [made |-> {}, open |-> {}, request |-> {}, scheduled |-> {}, job |-> {},
     used |-> {}]

\* the session of the task_service handed to add_task: the one
\* get_task_service built from the request's get_db
ServiceSession(request_session, made) == request_session

\* import_tasks_csv (route): get_db makes the request's session, the file is
\* read and process_csv_import is scheduled with the request's task_service
ImportAccept(owner_id, content) ==
    /\ imp.pc = "idle" /\ db.request = {}
    /\ LET s == SessionLocal(db.made)
           made == db.made \cup {s}
           job_session == ServiceSession(s, made)
       IN  db' = [db EXCEPT !.made = made \cup {job_session},
                            !.open = @ \cup {s},
                            !.request = {s},
                            !.scheduled = {[content |-> content, owner_id |-> owner_id,
                                            session |-> job_session]}]
    /\ UNCHANGED imp
    /\ UNCHANGED <<tasks, nextId, pending, bootTime, pg, q>>

\* get_db after its yield: db.close() on the request's session
GetDbClose ==
    /\ db.request \cap db.open # {}
    /\ db' = [db EXCEPT !.open = @ \ db.request]
    /\ UNCHANGED imp
    /\ UNCHANGED <<tasks, nextId, pending, bootTime, pg, q>>

\* BackgroundTasks runs process_csv_import with the arguments of add_task
JobStart ==
    \E j \in db.scheduled :
        /\ ImportStart(j.owner_id, j.content)
        /\ db' = [db EXCEPT !.scheduled = {}, !.job = {j.session}]

\* create_task of the job returns: db.add and db.commit ran on the session
\* of the job's repository
JobCommit ==
    /\ ImportCommit
    /\ db' = [db EXCEPT !.used = @ \cup db.job]

JobInit ==
    /\ imp = ImportIdle
    /\ calls = [w \in Threads |-> NoServiceCall]
    /\ db = NoSessions
    /\ steady = {}

\* ---- the limit query parameter on its way to TaskRepository.get_list
\* the values of the limit parameter tried: the ends of both ranges, their
\* neighbours, and the default
LimitValues ==
    {MinLimit - 1, MinLimit, DefaultLimit, MaxPageLimit, MaxPageLimit + 1,
     ExportCeiling, ExportCeiling + 1}
\* the parameter of a request: {} when it is not given
LimitParams == {{}} \cup {{n} : n \in LimitValues}

\* TaskPaginationRequest as a dependency: the default when limit is absent,
\* a validation error unless ge <= limit <= le
PaginationRequest(param) ==
    IF param = {} THEN [valid |-> TRUE, limit |-> DefaultLimit]
    ELSE LET n == CHOOSE x \in param : TRUE
         IN  IF n < MinLimit \/ n > MaxPageLimit
             THEN [valid |-> FALSE, limit |-> n]
             ELSE [valid |-> TRUE, limit |-> n]

\* what a listing route answers: 422 from the validation, without a query, or
\* the page that get_list returned for the limit it was called with
Unprocessable(op, owner_id, param) ==
    [op |-> op, caller |-> owner_id, param |-> param, status |-> 422,
     queried |-> FALSE, limit |-> 0, rows |-> {}]
Listed(op, owner_id, param, limit, page) ==
    [op |-> op, caller |-> owner_id, param |-> param, status |-> 200,
     queried |-> TRUE, limit |-> limit, rows |-> Range(page.data)]

\* GET /tasks
GetTasks(owner_id, param) ==
    LET pagination == PaginationRequest(param)
    IN  /\ resp' = IF ~pagination.valid THEN Unprocessable("get_tasks", owner_id, param)
                   ELSE Listed("get_tasks", owner_id, param, pagination.limit,
                               ServiceGetList(tasks, owner_id, NoCursor,
                                              pagination.limit, NoFilters))
        /\ UNCHANGED <<tasks, nextId, pending, bootTime, pg, q>>

\* GET /tasks/export/csv: the same TaskPaginationRequest, then
\* pagination.limit = min(pagination.limit or 1000, 1000)
ExportTasksCsv(owner_id, param) ==
    LET pagination == PaginationRequest(param)
        limit == Min(IF pagination.limit = 0 THEN ExportCeiling ELSE pagination.limit,
                     ExportCeiling)
    IN  /\ resp' = IF ~pagination.valid
                   THEN Unprocessable("export_tasks_csv", owner_id, param)
                   ELSE Listed("export_tasks_csv", owner_id, param, limit,
                               ServiceGetList(tasks, owner_id, NoCursor, limit, NoFilters))
        /\ UNCHANGED <<tasks, nextId, pending, bootTime, pg, q>>

\* GET /tasks without a cursor: the first page of a pagination
StartPagination(owner_id, limit, fields) ==
    /\ pg.state = "idle"
    /\ pg' = [PgIdle EXCEPT !.state = "running", !.owner = owner_id,
                            !.limit = limit, !.fields = fields]
    /\ UNCHANGED <<tasks, nextId, pending, bootTime, q>>

\* GET /tasks?cursor=<next_cursor of the previous page>
ListPage ==
    /\ pg.state = "running"
    /\ LET r == ServiceGetList(tasks, pg.owner, pg.cursor, pg.limit, pg.fields)
           remaining == {t \in tasks : /\ t.owner_id = pg.owner
                                       /\ Matches(t, pg.fields)
                                       /\ t.id > pg.cursor}
       IN  pg' = [pg EXCEPT
                    !.state = IF r.has_more THEN "running" ELSE "done",
                    !.cursor = r.next_cursor,
                    !.pages = Append(@, IdsOf(r.data)),
                    !.more = Append(@, r.has_more),
                    !.cursors = Append(@, pg.cursor),
                    !.rem = Append(@, Ids(remaining)),
                    !.prior = pg.since,
                    !.since = {}]
    /\ UNCHANGED <<tasks, nextId, pending, bootTime, q>>

\* a single GET /tasks request with arbitrary query parameters
Query(owner_id, cursor, limit, fields) ==
    /\ q' = [asked |-> TRUE, owner |-> owner_id, cursor |-> cursor, limit |-> limit,
             fields |-> fields,
             res |-> ServiceGetList(tasks, owner_id, cursor, limit, fields)]
    /\ UNCHANGED <<tasks, nextId, pending, bootTime, pg>>

\* ------------------------------------------------------------ user store
MaxUid == 2
\* largest user id the generator hands out

NoUser == 0
Workers == {"w1", "w2"}
Usernames == {"alice", "bob"}
Emails == {"a@x", "b@x"}
Passwords == {"pw1", "pw2"}
Salts == {"s1", "s2"}

\* UserService._hash_password: pwd_context.hash draws a fresh salt and embeds it
\* in the hash string; the hash is modelled by what verify recovers from it
HashPassword(password, salt) == [scheme |-> "argon2", pw |-> password, salt |-> salt]

\* no new password: update_user passes hashed_password=None to the repository
NoHash == [scheme |-> "none", pw |-> None, salt |-> None]

\* UserService._verify_password: pwd_context.verify recomputes the hash of the
\* plain password under the embedded salt and compares
VerifyPassword(plain_password, hashed_password) ==
    hashed_password.scheme = "argon2" /\ hashed_password.pw = plain_password

\* a stored password that is not a hash pwd_context can identify
MalformedHash == [scheme |-> "malformed", pw |-> None, salt |-> None]

\* pwd_context.verify on a hash that matches none of the configured schemes
\* raises (passlib's UnknownHashError); _verify_password does not catch it
VerifyRaises(hashed_password) == hashed_password.scheme # "argon2"

\* a stored user: the item UserRepository.create writes, without its timestamps
User(id, username, email, password) ==
    [id |-> id, username |-> username, email |-> email, password |-> password]

\* a bug: the generator hands out the same id again
GenerateUserIdAgain(n) == 1

\* UserService._generate_user_id
GenerateUserId(n) == n

\* JSONPersistence.find_by_field: the items whose field has the value; the
\* callers only test whether there is one
FindByField(store, field, value) == {u \in store : u[field] = value}

\* UserRepository.get_by_id: the item stored under the id, if any
RepoGetById(store, user_id) == {u \in store : u.id = user_id}

\* UserRepository.create: JSONPersistence.create refuses an id that is already
\* a key of the collection, and nothing else
RepoCreate(store, user_id, username, email, hashed_password) ==
    IF \E u \in store : u.id = user_id THEN store
    ELSE store \cup {User(user_id, username, email, hashed_password)}

\* UserRepository.update: only the supplied fields are assigned
RepoUpdate(store, user_id, username, email, hashed_password) ==
    {IF u.id = user_id
     THEN [u EXCEPT !.username = IF username # None THEN username ELSE @,
                    !.email = IF email # None THEN email ELSE @,
                    !.password = IF hashed_password # NoHash THEN hashed_password ELSE @]
     ELSE u : u \in store}

\* a worker that is not inside a UserService call; result is what its last
\* call gave its caller
Idle(result) ==
    [op |-> "idle", pc |-> "done", user_id |-> NoUser, username |-> None,
     email |-> None, password |-> None, existing |-> {}, result |-> result]

\* UserService.register_user is entered
RegisterStart(w, username, email, password) ==
    /\ reqs[w].op = "idle"
    /\ reqs' = [reqs EXCEPT ![w] =
                  [op |-> "register", pc |-> "check_username", user_id |-> NoUser,
                   username |-> username, email |-> email, password |-> password,
                   existing |-> {},
                   result |-> "none"]]
    /\ UNCHANGED <<users, nextUid>>

\* register_user: repository.get_by_username and the 400 it may raise
RegisterCheckUsername(w) ==
    /\ reqs[w].op = "register" /\ reqs[w].pc = "check_username"
    /\ reqs' = [reqs EXCEPT ![w] =
                  IF FindByField(users, "username", reqs[w].username) # {}
                  THEN Idle("username_taken")
                  ELSE [@ EXCEPT !.pc = "check_email"]]
    /\ UNCHANGED <<users, nextUid>>

\* register_user: repository.get_by_email and the 400 it may raise
RegisterCheckEmail(w) ==
    /\ reqs[w].op = "register" /\ reqs[w].pc = "check_email"
    /\ reqs' = [reqs EXCEPT ![w] =
                  IF FindByField(users, "email", reqs[w].email) # {}
                  THEN Idle("email_taken")
                  ELSE [@ EXCEPT !.pc = "create"]]
    /\ UNCHANGED <<users, nextUid>>

\* register_user: the password is hashed, the id generated and the item written
\* by repository.create
RegisterCreate(w, salt) ==
    /\ reqs[w].op = "register" /\ reqs[w].pc = "create"
    /\ nextUid <= MaxUid
    /\ users' = RepoCreate(users, GenerateUserId(nextUid), reqs[w].username,
                           reqs[w].email, HashPassword(reqs[w].password, salt))
    /\ nextUid' = nextUid + 1
    /\ reqs' = [reqs EXCEPT ![w] = Idle("created")]

\* UserService.update_user is entered: repository.get_by_id and the 404
UpdateStart(w, user_id, username, email, password) ==
    /\ reqs[w].op = "idle"
    /\ LET existing == RepoGetById(users, user_id)
       IN  reqs' = [reqs EXCEPT ![w] =
                      IF existing = {} THEN Idle("not_found")
                      ELSE [op |-> "update", pc |-> "check_username",
                            user_id |-> user_id, username |-> username,
                            email |-> email, password |-> password,
                            existing |-> existing,
                            result |-> "none"]]
    /\ UNCHANGED <<users, nextUid>>

\* update_user: the username lookup, made only if the name is being changed
UpdateCheckUsername(w) ==
    /\ reqs[w].op = "update" /\ reqs[w].pc = "check_username"
    /\ LET r == reqs[w]
           changing == r.username # None /\ \A e \in r.existing : r.username # e.username
       IN  reqs' = [reqs EXCEPT ![w] =
                      IF changing /\ FindByField(users, "username", r.username) # {}
                      THEN Idle("username_taken")
                      ELSE [@ EXCEPT !.pc = "check_email"]]
    /\ UNCHANGED <<users, nextUid>>

\* update_user: the email lookup, made only if the email is being changed
UpdateCheckEmail(w) ==
    /\ reqs[w].op = "update" /\ reqs[w].pc = "check_email"
    /\ LET r == reqs[w]
           changing == r.email # None /\ \A e \in r.existing : r.email # e.email
       IN  reqs' = [reqs EXCEPT ![w] =
                      IF changing /\ FindByField(users, "email", r.email) # {}
                      THEN Idle("email_taken")
                      ELSE [@ EXCEPT !.pc = "write"]]
    /\ UNCHANGED <<users, nextUid>>

\* update_user: a new password is hashed; repository.update, which returns None
\* if the item is gone
UpdateWrite(w, salt) ==
    /\ reqs[w].op = "update" /\ reqs[w].pc = "write"
    /\ LET r == reqs[w]
           hashed_password == IF r.password # None THEN HashPassword(r.password, salt)
                              ELSE NoHash
       IN  IF RepoGetById(users, r.user_id) = {}
           THEN /\ reqs' = [reqs EXCEPT ![w] = Idle("gone")]
                /\ UNCHANGED users
           ELSE /\ users' = RepoUpdate(users, r.user_id, r.username, r.email,
                                       hashed_password)
                /\ reqs' = [reqs EXCEPT ![w] = Idle("updated")]
    /\ UNCHANGED nextUid

\* UserService.delete_user
DeleteUser(w, user_id) ==
    /\ reqs[w].op = "idle"
    /\ users' = users \ RepoGetById(users, user_id)
    /\ reqs' = [reqs EXCEPT ![w] =
                  Idle(IF RepoGetById(users, user_id) = {} THEN "not_found" ELSE "deleted")]
    /\ UNCHANGED nextUid

\* the password of a stored item is overwritten from outside the service
\* with a value that is not a hash
StoreMalformedHash(user_id) ==
    /\ \E u \in RepoGetById(users, user_id) :
          /\ u.password # MalformedHash
          /\ users' = (users \ {u}) \cup {[u EXCEPT !.password = MalformedHash]}
    /\ UNCHANGED <<nextUid, reqs>>

UserInit ==
    /\ users = {}
    /\ nextUid = 1
    /\ reqs = [w \in Workers |-> Idle("none")]

\* ------------------------------------------------------------ bearer tokens
MaxTime == 2
\* last period of the clock

NoSub == 0
NoExp == -1
Secrets == {"k1", "k2"}

\* A token string, by what jwt.decode reads from it: whether it has the three
\* segments of a JWT at all, the key its signature was made with, and the sub
\* and exp claims of its payload (either may be absent).
Token(shape, key, sub, exp) == [shape |-> shape, key |-> key, sub |-> sub, exp |-> exp]
JunkToken == Token("junk", "k1", NoSub, NoExp)

TokenInputs ==
    {JunkToken} \cup
    {Token("jwt", k, s, e) : k \in Secrets, s \in {NoSub} \cup (1..MaxUid),
                             e \in {NoExp} \cup (1..(MaxTime - 1))}

NoPayload == [valid |-> FALSE, sub |-> NoSub, exp |-> NoExp]

\* a bug: jwt.decode is called with verify_signature switched off
DecodeJWTUnverified(jwtoken, secret_key, t) ==
    IF jwtoken.shape # "jwt" THEN NoPayload
    ELSE IF jwtoken.exp # NoExp /\ jwtoken.exp <= t THEN NoPayload
    ELSE [valid |-> TRUE, sub |-> jwtoken.sub, exp |-> jwtoken.exp]

\* decodeJWT: jwt.decode raises DecodeError for a string that is not a JWT,
\* InvalidSignatureError for a signature made with another key and
\* ExpiredSignatureError when exp <= now; each is an InvalidTokenError -> None
DecodeJWT(jwtoken, secret_key, t) ==
    IF jwtoken.shape # "jwt" THEN NoPayload
    ELSE IF jwtoken.key # secret_key THEN NoPayload
    ELSE IF jwtoken.exp # NoExp /\ jwtoken.exp <= t THEN NoPayload
    ELSE [valid |-> TRUE, sub |-> jwtoken.sub, exp |-> jwtoken.exp]

\* JWTBearer.verify_jwt
VerifyJwt(jwtoken, secret_key, t) == DecodeJWT(jwtoken, secret_key, t).valid

\* UserService.get_by_id as get_current_user uses it: the user stored under the
\* id, or None
ServiceGetById(store, user_id) == RepoGetById(store, user_id)

\* --------------------------------------------------- the session verifier
Headers == {"missing", "no_token", "basic", "bearer"}
NoDecode == [done |-> FALSE, at |-> 0, key |-> "k1", ok |-> FALSE]
Decoded(jwtoken, secret_key, t) ==
    [done |-> TRUE, at |-> t, key |-> secret_key, ok |-> VerifyJwt(jwtoken, secret_key, t)]

NoRequest ==
    [pc |-> "idle", stage |-> "none", hdr |-> "missing", token |-> JunkToken,
     user |-> {}, status |-> 0, ran |-> FALSE, dec |-> NoDecode]

\* a request to a protected route arrives; nothing has looked at it yet
Arrive(hdr, token) ==
    /\ areq.pc \in {"idle", "Authenticated", "Rejected", "Unprocessable"}
    /\ hdr # "bearer" => token = JunkToken
    /\ areq' = [NoRequest EXCEPT !.pc = "Unauthenticated", !.hdr = hdr, !.token = token]
    /\ UNCHANGED <<now, secret>>

\* JWTBearer.__call__, the Authorization header: 422 unless it reads "Bearer <token>"
BearerHeader ==
    /\ areq.pc = "Unauthenticated"
    /\ areq' = IF areq.hdr = "bearer"
               THEN [areq EXCEPT !.pc = "Decoding", !.stage = "bearer"]
               ELSE [areq EXCEPT !.pc = "Unprocessable", !.status = 422]
    /\ UNCHANGED <<now, secret>>

\* JWTBearer.__call__, verify_jwt: 401 unless the token decodes
BearerVerify ==
    /\ areq.pc = "Decoding" /\ areq.stage = "bearer"
    /\ areq' = IF VerifyJwt(areq.token, secret, now)
               THEN [areq EXCEPT !.stage = "current_user",
                                 !.dec = Decoded(areq.token, secret, now)]
               ELSE [areq EXCEPT !.pc = "Rejected", !.status = 401,
                                 !.dec = Decoded(areq.token, secret, now)]
    /\ UNCHANGED <<now, secret>>

\* a bug: the user lookup is not checked for None
CurrentUserUnchecked(jwtoken, store, secret_key, t) ==
    LET payload == DecodeJWT(jwtoken, secret_key, t)
    IN  IF ~payload.valid THEN [pc |-> "Rejected", status |-> 401, user |-> {}]
        ELSE IF payload.sub = NoSub THEN [pc |-> "Rejected", status |-> 401, user |-> {}]
        ELSE [pc |-> "Authenticated", status |-> 0,
              user |-> ServiceGetById(store, payload.sub)]

\* get_current_user: the token is decoded again, its sub read, the user looked
\* up; each of the three can end the request with 401
CurrentUser(jwtoken, store, secret_key, t) ==
    LET payload == DecodeJWT(jwtoken, secret_key, t)
    IN  IF ~payload.valid THEN [pc |-> "Rejected", status |-> 401, user |-> {}]
        ELSE IF payload.sub = NoSub THEN [pc |-> "Rejected", status |-> 401, user |-> {}]
        ELSE LET user == ServiceGetById(store, payload.sub)
             IN  IF user = {} THEN [pc |-> "Rejected", status |-> 401, user |-> {}]
                 ELSE [pc |-> "Authenticated", status |-> 0, user |-> user]

\* the get_current_user dependency of a protected route
GetCurrentUser ==
    /\ areq.pc = "Decoding" /\ areq.stage = "current_user"
    /\ LET r == CurrentUser(areq.token, users, secret, now)
       IN  areq' = [areq EXCEPT !.pc = r.pc, !.status = r.status, !.user = r.user,
                                !.dec = Decoded(areq.token, secret, now)]
    /\ UNCHANGED <<now, secret>>

\* the route function runs, with the user the dependency resolved
Handler ==
    /\ areq.pc = "Authenticated" /\ ~areq.ran
    /\ areq' = [areq EXCEPT !.ran = TRUE]
    /\ UNCHANGED <<now, secret>>

\* time passes
Tick ==
    /\ now < MaxTime
    /\ now' = now + 1
    /\ UNCHANGED <<secret, areq>>

\* the process is restarted with another SECRET_KEY; settings are read once,
\* at import, so no request is inside the verifier across the change
RotateSecret ==
    /\ areq.pc \notin {"Unauthenticated", "Decoding"}
    /\ \E k \in Secrets \ {secret} : secret' = k
    /\ UNCHANGED <<now, areq>>

AuthInit ==
    /\ now = 0
    /\ secret = "k1"
    /\ areq = NoRequest

\* ---------------------------------------------------------- token endpoints
access_token_expires_in == 1
\* settings.access_token_expires_in: 30 minutes, one period of the clock
refresh_token_expires_in == 2
\* settings.refresh_token_expires_in: 60 minutes, two periods

\* create_access_token; expires_delta is {} for None and {d} for a timedelta
CreateAccessToken(subject, expires_delta, secret_key, t) ==
    LET expire == IF expires_delta # {}
                  THEN t + (CHOOSE d \in expires_delta : TRUE)
                  ELSE t + access_token_expires_in
    IN  Token("jwt", secret_key, subject, expire)

\* create_refresh_token
CreateRefreshToken(subject, expires_delta, secret_key, t) ==
    LET expire == IF expires_delta # {}
                  THEN t + (CHOOSE d \in expires_delta : TRUE)
                  ELSE t + refresh_token_expires_in
    IN  Token("jwt", secret_key, subject, expire)

\* UserService._generate_access_token / _generate_refresh_token
GenerateAccessToken(user_id, secret_key, t) ==
    CreateAccessToken(user_id, {access_token_expires_in}, secret_key, t)
GenerateRefreshToken(user_id, secret_key, t) ==
    CreateRefreshToken(user_id, {refresh_token_expires_in}, secret_key, t)

\* UserRepository.get_by_username: the first item of the collection with that
\* username; items are kept in the order they were created
GetByUsername(store, username) ==
    LET named == FindByField(store, "username", username)
    IN  {u \in named : \A v \in named : u.id <= v.id}

\* what a token endpoint answers: HTTPException(401, detail) ...
Unauthorized(detail) ==
    [status |-> 401, detail |-> detail, user_id |-> NoUser, access |-> {}, refresh |-> {}]

\* ... or an exception that is no HTTPException and leaves the route unhandled
Unhandled ==
    [status |-> 500, detail |-> "Internal Server Error", user_id |-> NoUser,
     access |-> {}, refresh |-> {}]

\* ... or a UserTokenResponse
TokenResponse(user_id, access_token, refresh_token) ==
    [status |-> 200, detail |-> "", user_id |-> user_id,
     access |-> {access_token}, refresh |-> {refresh_token}]

\* a bug: the two failures of get_user_token carry different detail texts
GetUserTokenNamingCause(store, username, password, secret_key, t) ==
    LET found == GetByUsername(store, username)
    IN  IF found = {} THEN Unauthorized("User not found")
        ELSE LET user == CHOOSE u \in found : TRUE
             IN  IF ~VerifyPassword(password, user.password)
                 THEN Unauthorized("Invalid username or password")
                 ELSE TokenResponse(user.id,
                                    GenerateAccessToken(user.id, secret_key, t),
                                    GenerateRefreshToken(user.id, secret_key, t))

\* a bug: the stored item is returned as it is, password included
DictToUserResponseWhole(user_dict) == user_dict

\* dict_to_user_response: a UserResponse built from the id, username and email
\* of the stored item (and its timestamps); the password is not copied
DictToUserResponse(user_dict) ==
    [id |-> user_dict.id, username |-> user_dict.username, email |-> user_dict.email]

\* response_model=UserResponse on a route: whatever the route function
\* returns is serialized through the fields of UserResponse
UserResponseModel(obj) ==
    [f \in (DOMAIN obj) \cap {"id", "username", "email"} |-> obj[f]]

\* the response of a users route: its status code and the users in its body
UserReply(op, status_code, body) ==
    [op |-> op, status |-> status_code, body |-> body]

\* POST /users answers 201 with what register_user returns, repository.create's
\* dict_to_user_response of the item it wrote
CreateUserReply(w, salt) ==
    UserReply("create_user", 201,
              {UserResponseModel(DictToUserResponse(
                   User(GenerateUserId(nextUid), reqs[w].username, reqs[w].email,
                        HashPassword(reqs[w].password, salt))))})

\* update_user returns repository.update's dict_to_user_response of the item
\* it wrote, or None when the item is gone
UpdateUserReply(w, salt) ==
    LET r == reqs[w]
        hashed_password == IF r.password # None THEN HashPassword(r.password, salt)
                           ELSE NoHash
        written == RepoGetById(RepoUpdate(users, r.user_id, r.username, r.email,
                                          hashed_password), r.user_id)
    IN  UserReply("update_user", 200,
                  {UserResponseModel(DictToUserResponse(u)) : u \in written})

\* get_all_users: repository.get_all
GetAllUsers ==
    /\ resp' = UserReply("get_all_users", 200, {DictToUserResponse(u) : u \in users})
    /\ UNCHANGED <<users, nextUid, reqs>>

\* GET /users/me returns current_user through response_model=UserResponse
ProfileReply ==
    UserReply("get_current_user_profile", 200, {UserResponseModel(u) : u \in areq.user})

\* UserService.get_user_token
GetUserToken(store, username, password, secret_key, t) ==
    LET found == GetByUsername(store, username)
    IN  IF found = {} THEN Unauthorized("Invalid username or password")
        ELSE LET user == CHOOSE u \in found : TRUE
             IN  IF VerifyRaises(user.password) THEN Unhandled
                 ELSE IF ~VerifyPassword(password, user.password)
                 THEN Unauthorized("Invalid username or password")
                 ELSE TokenResponse(user.id,
                                    GenerateAccessToken(user.id, secret_key, t),
                                    GenerateRefreshToken(user.id, secret_key, t))

\* the record of a call: named is the ids of the users that had the username
\* when a login was made, presented the token handed in, out the answer, and
\* kinds what the call before had handed that token out as, and replay that
\* the token handed in is one the call before had rotated
NoAnswer == [status |-> 0, detail |-> "", user_id |-> NoUser, access |-> {}, refresh |-> {}]
NoCall ==
    [op |-> "none", username |-> None, password |-> None, named |-> {},
     presented |-> {}, kinds |-> {}, replay |-> FALSE, payload |-> NoPayload,
     out |-> NoAnswer, cookie |-> {}]

\* POST /users/auth/token: get_user_token, then the refresh token is set as
\* the refresh_token cookie
Login(username, password) ==
    LET out == GetUserToken(users, username, password, secret, now)
    IN  sess' = [op |-> "login", username |-> username, password |-> password,
                 named |-> {u.id : u \in FindByField(users, "username", username)},
                 presented |-> {}, kinds |-> {}, replay |-> FALSE,
                 payload |-> NoPayload, out |-> out, cookie |-> out.refresh]

\* UserService.refresh_access_token: the token is decoded as decodeJWT does,
\* its subject looked up again; either failure is the same 401, and a success
\* is a new pair of tokens for that subject
RefreshAccessToken(refresh_token, store, secret_key, t) ==
    LET payload == DecodeJWT(refresh_token, secret_key, t)
    IN  IF ~payload.valid THEN Unauthorized("Invalid refresh token")
        ELSE LET found == ServiceGetById(store, payload.sub)
             IN  IF found = {} THEN Unauthorized("Invalid refresh token")
                 ELSE LET user == CHOOSE u \in found : TRUE
                      IN  TokenResponse(user.id,
                                        GenerateAccessToken(user.id, secret_key, t),
                                        GenerateRefreshToken(user.id, secret_key, t))

\* what the answer before handed the token in the cookie out as
KindsOf(cookie) ==
    {k \in {"access", "refresh"} :
        cookie # {} /\ cookie \subseteq (IF k = "access" THEN sess.out.access
                                                          ELSE sess.out.refresh)}

\* the call before was a refresh that took this cookie and answered with
\* another refresh token
Rotated(cookie) ==
    /\ sess.op = "refresh" /\ sess.out.status = 200
    /\ cookie # {} /\ cookie = sess.presented
    /\ sess.out.refresh # cookie

\* a bug: the rotated refresh token is not set as the cookie
RefreshWithoutCookie(cookie) ==
    LET out == IF cookie = {} THEN Unauthorized("Refresh token not found")
               ELSE RefreshAccessToken(CHOOSE tok \in cookie : TRUE, users, secret, now)
    IN  sess' = [NoCall EXCEPT !.op = "refresh", !.presented = cookie,
                              !.kinds = KindsOf(cookie), !.replay = Rotated(cookie),
                              !.out = out, !.cookie = cookie]

\* a bug that is a revocation: a token that was rotated is refused
RefreshRevoking(cookie) ==
    LET out == IF cookie = {} THEN Unauthorized("Refresh token not found")
               ELSE IF Rotated(cookie) THEN Unauthorized("Invalid refresh token")
               ELSE RefreshAccessToken(CHOOSE tok \in cookie : TRUE, users, secret, now)
    IN  sess' = [NoCall EXCEPT !.op = "refresh", !.presented = cookie,
                              !.kinds = KindsOf(cookie), !.replay = Rotated(cookie),
                              !.out = out, !.cookie = out.refresh]

\* a bug that is a kind check: what was handed out as an access token is refused
RefreshKindChecked(cookie) ==
    LET out == IF cookie = {} THEN Unauthorized("Refresh token not found")
               ELSE IF KindsOf(cookie) = {"access"} THEN Unauthorized("Invalid refresh token")
               ELSE RefreshAccessToken(CHOOSE tok \in cookie : TRUE, users, secret, now)
    IN  sess' = [NoCall EXCEPT !.op = "refresh", !.presented = cookie,
                              !.kinds = KindsOf(cookie), !.replay = Rotated(cookie),
                              !.out = out, !.cookie = out.refresh]

\* POST /users/auth/refresh: cookie is {} when the request carries no
\* refresh_token cookie; the new refresh token is set as the cookie
Refresh(cookie) ==
    LET out == IF cookie = {} THEN Unauthorized("Refresh token not found")
               ELSE RefreshAccessToken(CHOOSE tok \in cookie : TRUE, users, secret, now)
    IN  sess' = [NoCall EXCEPT !.op = "refresh", !.presented = cookie,
                              !.kinds = KindsOf(cookie), !.replay = Rotated(cookie),
                              !.out = out, !.cookie = out.refresh]

\* the tokens the client holds: those of the last answer, and the one it
\* presented to get it
HeldTokens == sess.out.access \cup sess.out.refresh \cup sess.presented

\* a bug that is a revocation: logging out changes the signing key
LogoutRevoking ==
    /\ sess' = [NoCall EXCEPT !.op = "logout", !.presented = HeldTokens,
                              !.out = [NoAnswer EXCEPT !.status = 204],
                              !.cookie = {}]
    /\ secret' = CHOOSE k \in Secrets : k # secret
    /\ UNCHANGED <<users, nextUid, reqs, now, areq>>

\* POST /users/auth/logout: 204, and the refresh_token cookie is deleted; no
\* service is called. presented keeps the tokens the client was given before
Logout ==
    /\ sess' = [NoCall EXCEPT !.op = "logout", !.presented = HeldTokens,
                              !.out = [NoAnswer EXCEPT !.status = 204],
                              !.cookie = {}]
    /\ UNCHANGED <<users, nextUid, reqs, now, secret, areq>>

\* core.auth.verify_jwt_token: jwt.decode checks the structure, then the
\* signature, then exp; ExpiredSignatureError is caught before the other
\* InvalidTokenErrors and answered with a detail text of its own
VerifyJwtToken(token, secret_key, t) ==
    IF token.shape # "jwt"
    THEN [payload |-> NoPayload, raised |-> Unauthorized("Invalid token")]
    ELSE IF token.key # secret_key
    THEN [payload |-> NoPayload, raised |-> Unauthorized("Invalid token")]
    ELSE IF token.exp # NoExp /\ token.exp <= t
    THEN [payload |-> NoPayload, raised |-> Unauthorized("Token has expired")]
    ELSE [payload |-> [valid |-> TRUE, sub |-> token.sub, exp |-> token.exp],
          raised |-> NoAnswer]

\* UserService.verify_jwt_token delegates to core.auth.verify_jwt_token
ServiceVerifyJwtToken(token, secret_key, t) == VerifyJwtToken(token, secret_key, t)

\* the functions of the program that decode a token for a caller
DecodeEntries == {"decodeJWT", "verify_jwt_token", "UserService.verify_jwt_token"}

\* what the caller of a decoding function gets: the payload or None, and the
\* exception raised, if any
DecodeOutcome(entry, token, secret_key, t) ==
    IF entry = "decodeJWT"
    THEN [payload |-> DecodeJWT(token, secret_key, t), raised |-> NoAnswer]
    ELSE IF entry = "verify_jwt_token"
    THEN VerifyJwtToken(token, secret_key, t)
    ELSE ServiceVerifyJwtToken(token, secret_key, t)

\* one call of a decoding function
DecodeCall(entry, token) ==
    LET r == DecodeOutcome(entry, token, secret, now)
    IN  sess' = [NoCall EXCEPT !.op = entry, !.presented = {token},
                              !.payload = r.payload, !.out = r.raised]

SessInit == sess = NoCall

AcctInit == UserInit /\ AuthInit /\ SessInit

\* ------------------------------------------------------- specification
NoQuery ==
    [asked |-> FALSE, owner |-> "u1", cursor |-> NoCursor, limit |-> MinLimit,
     fields |-> NoFilters,
     res |-> [data |-> <<>>, next_cursor |-> NoCursor, has_more |-> FALSE]]

TaskInit ==
    /\ tasks = {}
    /\ nextId = 1
    /\ pending = {}
    /\ bootTime = 0
    /\ pg = PgIdle
    /\ q = NoQuery
    /\ resp = NoReply

Init == TaskInit /\ AcctInit /\ JobInit

PageStatuses == {"todo", "done"}
StatusOnly(s) == [NoFilters EXCEPT !.status = s]
SetStatus(s) == [title |-> None, description |-> None, priority |-> None, status |-> s]

PageNext ==
    \/ \E s \in PageStatuses :
          CreateBegin("u1", "t1", None, s, "medium") /\ UNCHANGED <<resp, acctVars, jobVars>>
    \/ \E t \in pending : CreateCommit(t) /\ UNCHANGED <<resp, acctVars, jobVars>>
    \/ \E id \in 1..MaxId, s \in PageStatuses :
          Update(id, SetStatus(s), "u1") /\ UNCHANGED <<resp, acctVars, jobVars>>
    \/ \E id \in 1..MaxId : Delete(id, "u1") /\ UNCHANGED <<resp, acctVars, jobVars>>
    \/ \E k \in MinLimit..MaxLimit, s \in {None, "todo"} :
          StartPagination("u1", k, StatusOnly(s)) /\ UNCHANGED <<resp, acctVars, jobVars>>
    \/ ListPage /\ UNCHANGED <<resp, acctVars, jobVars>>

Spec == Init /\ [][PageNext]_vars

\* ---- single listings over stores drawn from a catalogue of rows
\* rows as create() and update() leave them under workers started at time 0 and
\* at time MaxBoot: owner, status, priority, created_at, updated_at
RowInputs ==
    {<<"u1", "todo", "low", 0, 0>>,
     <<"u1", "todo", "high", 0, MaxBoot>>,
     <<"u1", "done", "low", MaxBoot, MaxBoot>>,
     <<"u2", "todo", "low", 0, 0>>}

FilterInputs ==
    {f \in [status : {None, "todo"}, priority : {None, "low"},
            created_after : {NoTime, MaxBoot}, created_before : {NoTime, 0},
            updated_after : {NoTime, MaxBoot}, updated_before : {NoTime, 0}] :
        \/ f.updated_after = NoTime /\ f.updated_before = NoTime
        \/ f.priority = None /\ f.created_before = NoTime}

ListInit ==
    /\ \E present \in SUBSET (1..MaxId) :
         \E pick \in [present -> RowInputs] :
            tasks = {Row(i, pick[i][1], "t1", None, pick[i][2], pick[i][3],
                         pick[i][4], pick[i][5]) : i \in present}
    /\ nextId = MaxId + 1
    /\ pending = {}
    /\ bootTime = MaxBoot
    /\ pg = PgIdle
    /\ q = NoQuery
    /\ resp = NoReply

\* one request per store: the listing is a function of the store and the query
ListNext ==
    \E o \in Owners, c \in 0..MaxId, k \in MinLimit..MaxLimit, f \in FilterInputs :
        ~q.asked /\ Query(o, c, k, f) /\ UNCHANGED <<resp, acctVars, jobVars>>

ListStores == ListInit /\ AcctInit /\ JobInit

SpecList == ListStores /\ [][ListNext]_vars

\* ---- the repository calls of two owners, with what each call hands back
NoUpdate == [title |-> None, description |-> None, priority |-> None, status |-> None]
\* TaskUpdate: each of the four fields is given or not
PartialUpdates ==
    [title : {None, "t2"}, description : {None, "d2"},
     priority : {None, "high"}, status : {None, "done"}]
UpdateInputs == {[NoUpdate EXCEPT !.status = "done"]}

CrudNext ==
    \/ \E o \in Owners : CreateBegin(o, "t1", None, "todo", "medium") /\ UNCHANGED <<resp, acctVars, jobVars>>
    \/ \E t \in pending :
          /\ CreateCommit(t)
          /\ resp' = [op |-> "create", caller |-> t.owner_id, task_id |-> t.id,
                      rows |-> {t}, ok |-> TRUE]
          /\ UNCHANGED <<acctVars, jobVars>>
    \/ \E id \in 1..MaxId, o \in Owners :
          /\ GetById(id, o)
          /\ resp' = Reply("get_by_id", tasks, id, NoUpdate, o, bootTime)
          /\ UNCHANGED <<acctVars, jobVars>>
    \/ \E id \in 1..MaxId, o \in Owners, d \in UpdateInputs :
          /\ Update(id, d, o)
          /\ resp' = Reply("update", tasks, id, d, o, bootTime)
          /\ UNCHANGED <<acctVars, jobVars>>
    \/ \E id \in 1..MaxId, o \in Owners :
          /\ Delete(id, o)
          /\ resp' = Reply("delete", tasks, id, NoUpdate, o, bootTime)
          /\ UNCHANGED <<acctVars, jobVars>>
    \/ \E o \in Owners, k \in MinLimit..MaxLimit :
          /\ resp' = [op |-> "get_list", caller |-> o, task_id |-> NoCursor,
                      rows |-> Range(ServiceGetList(tasks, o, NoCursor, k, NoFilters).data),
                      ok |-> TRUE]
          /\ UNCHANGED <<tasks, nextId, pending, bootTime, pg, q>>
          /\ UNCHANGED <<acctVars, jobVars>>

SpecCrud == Init /\ [][CrudNext]_vars

\* ---- concurrent UserService calls of two workers
UserUpdateInputs == {<<"bob", None, None>>, <<None, "b@x", None>>}

UsersNext ==
    \/ \E w \in Workers, n \in Usernames, e \in Emails :
          RegisterStart(w, n, e, "pw1") /\ UNCHANGED <<taskVars, jobVars, authVars, sessVars>>
    \/ \E w \in Workers : RegisterCheckUsername(w) /\ UNCHANGED <<taskVars, jobVars, authVars, sessVars>>
    \/ \E w \in Workers : RegisterCheckEmail(w) /\ UNCHANGED <<taskVars, jobVars, authVars, sessVars>>
    \/ \E w \in Workers : RegisterCreate(w, "s1") /\ UNCHANGED <<taskVars, jobVars, authVars, sessVars>>
    \/ \E w \in Workers, id \in 1..MaxUid, d \in UserUpdateInputs :
          UpdateStart(w, id, d[1], d[2], d[3]) /\ UNCHANGED <<taskVars, jobVars, authVars, sessVars>>
    \/ \E w \in Workers : UpdateCheckUsername(w) /\ UNCHANGED <<taskVars, jobVars, authVars, sessVars>>
    \/ \E w \in Workers : UpdateCheckEmail(w) /\ UNCHANGED <<taskVars, jobVars, authVars, sessVars>>
    \/ \E w \in Workers : UpdateWrite(w, "s1") /\ UNCHANGED <<taskVars, jobVars, authVars, sessVars>>
    \/ \E w \in Workers, id \in 1..MaxUid :
          DeleteUser(w, id) /\ UNCHANGED <<taskVars, jobVars, authVars, sessVars>>

SpecUsers == Init /\ [][UsersNext]_vars

\* ---- requests to protected routes while users come and go and time passes
AuthNext ==
    \/ \E h \in Headers, t \in TokenInputs : Arrive(h, t) /\ UNCHANGED <<taskVars, jobVars, userVars, sessVars>>
    \/ BearerHeader /\ UNCHANGED <<taskVars, jobVars, userVars, sessVars>>
    \/ BearerVerify /\ UNCHANGED <<taskVars, jobVars, userVars, sessVars>>
    \/ GetCurrentUser /\ UNCHANGED <<taskVars, jobVars, userVars, sessVars>>
    \/ Handler /\ UNCHANGED <<taskVars, jobVars, userVars, sessVars>>
    \/ Tick /\ UNCHANGED <<taskVars, jobVars, userVars, sessVars>>
    \/ RotateSecret /\ UNCHANGED <<taskVars, jobVars, userVars, sessVars>>
    \/ \E d \in {<<"alice", "a@x">>, <<"bob", "b@x">>} :
          RegisterStart("w1", d[1], d[2], "pw1") /\ UNCHANGED <<taskVars, jobVars, authVars, sessVars>>
    \/ RegisterCheckUsername("w1") /\ UNCHANGED <<taskVars, jobVars, authVars, sessVars>>
    \/ RegisterCheckEmail("w1") /\ UNCHANGED <<taskVars, jobVars, authVars, sessVars>>
    \/ RegisterCreate("w1", "s1") /\ UNCHANGED <<taskVars, jobVars, authVars, sessVars>>
    \/ \E id \in 1..MaxUid : DeleteUser("w1", id) /\ UNCHANGED <<taskVars, jobVars, authVars, sessVars>>

SpecAuth == Init /\ [][AuthNext]_vars

\* the framework runs the dependencies of a request it has accepted to their end
VerifierStep ==
    (BearerHeader \/ BearerVerify \/ GetCurrentUser) /\ UNCHANGED <<taskVars, jobVars, userVars, sessVars>>

SpecAuthLive == SpecAuth /\ WF_vars(VerifierStep)

\* ---- logins while two workers register, change passwords and delete
LoginNext ==
    \/ \E w \in Workers, e \in Emails, p \in Passwords :
          RegisterStart(w, "alice", e, p) /\ UNCHANGED <<taskVars, jobVars, authVars, sessVars>>
    \/ \E w \in Workers : RegisterCheckUsername(w) /\ UNCHANGED <<taskVars, jobVars, authVars, sessVars>>
    \/ \E w \in Workers : RegisterCheckEmail(w) /\ UNCHANGED <<taskVars, jobVars, authVars, sessVars>>
    \/ \E w \in Workers, salt \in Salts :
          RegisterCreate(w, salt) /\ UNCHANGED <<taskVars, jobVars, authVars, sessVars>>
    \/ \E id \in 1..MaxUid, p \in Passwords :
          UpdateStart("w1", id, None, None, p) /\ UNCHANGED <<taskVars, jobVars, authVars, sessVars>>
    \/ UpdateCheckUsername("w1") /\ UNCHANGED <<taskVars, jobVars, authVars, sessVars>>
    \/ UpdateCheckEmail("w1") /\ UNCHANGED <<taskVars, jobVars, authVars, sessVars>>
    \/ \E salt \in Salts : UpdateWrite("w1", salt) /\ UNCHANGED <<taskVars, jobVars, authVars, sessVars>>
    \/ \E id \in 1..MaxUid : DeleteUser("w1", id) /\ UNCHANGED <<taskVars, jobVars, authVars, sessVars>>
    \/ \E n \in Usernames, p \in Passwords :
          Login(n, p) /\ UNCHANGED <<taskVars, jobVars, userVars, authVars>>

SpecLogin == Init /\ [][LoginNext]_vars

\* ---- calls of the decoding functions while time passes and the key changes
DecodeNext ==
    \/ \E entry \in DecodeEntries, token \in TokenInputs :
          DecodeCall(entry, token) /\ UNCHANGED <<taskVars, jobVars, userVars, authVars>>
    \/ Tick /\ UNCHANGED <<taskVars, jobVars, userVars, sessVars>>
    \/ RotateSecret /\ UNCHANGED <<taskVars, jobVars, userVars, sessVars>>

SpecDecode == Init /\ [][DecodeNext]_vars

\* ---- a user registers, logs in, refreshes, calls a protected route with a
\* ---- token it was given, and is deleted, while time passes
SessionNext ==
    \/ RegisterStart("w1", "alice", "a@x", "pw1") /\ UNCHANGED <<taskVars, jobVars, authVars, sessVars>>
    \/ RegisterCheckUsername("w1") /\ UNCHANGED <<taskVars, jobVars, authVars, sessVars>>
    \/ RegisterCheckEmail("w1") /\ UNCHANGED <<taskVars, jobVars, authVars, sessVars>>
    \/ RegisterCreate("w1", "s1") /\ UNCHANGED <<taskVars, jobVars, authVars, sessVars>>
    \/ \E id \in 1..MaxUid : DeleteUser("w1", id) /\ UNCHANGED <<taskVars, jobVars, authVars, sessVars>>
    \/ Login("alice", "pw1") /\ UNCHANGED <<taskVars, jobVars, userVars, authVars>>
    \/ \E cookie \in {{}} \cup {{tok} : tok \in HeldTokens \cup {JunkToken}} :
          Refresh(cookie) /\ UNCHANGED <<taskVars, jobVars, userVars, authVars>>
    \/ \E tok \in HeldTokens :
          Arrive("bearer", tok) /\ UNCHANGED <<taskVars, jobVars, userVars, sessVars>>
    \/ BearerHeader /\ UNCHANGED <<taskVars, jobVars, userVars, sessVars>>
    \/ BearerVerify /\ UNCHANGED <<taskVars, jobVars, userVars, sessVars>>
    \/ GetCurrentUser /\ UNCHANGED <<taskVars, jobVars, userVars, sessVars>>
    \/ Handler /\ UNCHANGED <<taskVars, jobVars, userVars, sessVars>>
    \/ Tick /\ UNCHANGED <<taskVars, jobVars, userVars, sessVars>>

SpecSession == Init /\ [][SessionNext]_vars

\* ---- service calls of two owners on each other's tasks
TaskServiceNext ==
    \/ \E o \in Owners : CreateBegin(o, "t1", None, "todo", "medium") /\ UNCHANGED <<resp, acctVars, jobVars>>
    \/ \E t \in pending : CreateCommit(t) /\ UNCHANGED <<resp, acctVars, jobVars>>
    \/ \E id \in NoTaskId..MaxId, o \in Owners : ServiceGetTask(id, o) /\ UNCHANGED <<acctVars, jobVars>>
    \/ \E id \in NoTaskId..MaxId, o \in Owners, d \in UpdateInputs :
          ServiceUpdateTask(id, d, o) /\ UNCHANGED <<acctVars, jobVars>>
    \/ \E id \in NoTaskId..MaxId, o \in Owners : ServiceDeleteTask(id, o) /\ UNCHANGED <<acctVars, jobVars>>

SpecTaskService == Init /\ [][TaskServiceNext]_vars

\* ---- listings and exports with every limit parameter, on a growing store
LimitNext ==
    \/ \E o \in Owners : CreateBegin(o, "t1", None, "todo", "medium") /\ UNCHANGED <<resp, acctVars, jobVars>>
    \/ \E t \in pending : CreateCommit(t) /\ UNCHANGED <<resp, acctVars, jobVars>>
    \/ \E param \in LimitParams : GetTasks("u1", param) /\ UNCHANGED <<acctVars, jobVars>>
    \/ \E param \in LimitParams : ExportTasksCsv("u1", param) /\ UNCHANGED <<acctVars, jobVars>>

SpecLimit == Init /\ [][LimitNext]_vars

\* ---- one import of u1 while u2 creates tasks
ImportNext ==
    \/ \E content \in CsvContents : ImportStart("u1", content) /\ UNCHANGED <<resp, steady, calls, db, acctVars>>
    \/ ImportRow /\ UNCHANGED <<resp, steady, calls, db, acctVars>>
    \/ ImportCommit /\ UNCHANGED <<resp, steady, calls, db, acctVars>>
    \/ ImportFinish /\ UNCHANGED <<resp, steady, calls, db, acctVars>>
    \/ CreateBegin("u2", "t2", None, "todo", "medium") /\ UNCHANGED <<resp, acctVars, jobVars>>
    \/ \E t \in pending :
          t.owner_id = "u2" /\ CreateCommit(t) /\ UNCHANGED <<resp, acctVars, jobVars>>

SpecImport == Init /\ [][ImportNext]_vars

\* ---- the responses of the users routes: register, update, list, profile
\* ---- and token issuance
ProfileNext ==
    \/ \E p \in Passwords :
          RegisterStart("w1", "alice", "a@x", p) /\ UNCHANGED <<taskVars, jobVars, authVars, sessVars>>
    \/ RegisterCheckUsername("w1") /\ UNCHANGED <<taskVars, jobVars, authVars, sessVars>>
    \/ RegisterCheckEmail("w1") /\ UNCHANGED <<taskVars, jobVars, authVars, sessVars>>
    \/ \E salt \in Salts :
          /\ RegisterCreate("w1", salt)
          /\ resp' = CreateUserReply("w1", salt)
          /\ UNCHANGED <<storeVars, jobVars, authVars, sessVars>>
    \/ \E id \in 1..MaxUid, d \in UserUpdateInputs \cup {<<None, None, "pw2">>} :
          UpdateStart("w1", id, d[1], d[2], d[3]) /\ UNCHANGED <<taskVars, jobVars, authVars, sessVars>>
    \/ UpdateCheckUsername("w1") /\ UNCHANGED <<taskVars, jobVars, authVars, sessVars>>
    \/ UpdateCheckEmail("w1") /\ UNCHANGED <<taskVars, jobVars, authVars, sessVars>>
    \/ /\ UpdateWrite("w1", "s2")
       /\ resp' = UpdateUserReply("w1", "s2")
       /\ UNCHANGED <<storeVars, jobVars, authVars, sessVars>>
    \/ GetAllUsers /\ UNCHANGED <<storeVars, jobVars, authVars, sessVars>>
    \/ \E n \in Usernames, p \in Passwords :
          Login(n, p) /\ UNCHANGED <<taskVars, jobVars, userVars, authVars>>
    \/ \E tok \in HeldTokens :
          Arrive("bearer", tok) /\ UNCHANGED <<taskVars, jobVars, userVars, sessVars>>
    \/ BearerHeader /\ UNCHANGED <<taskVars, jobVars, userVars, sessVars>>
    \/ BearerVerify /\ UNCHANGED <<taskVars, jobVars, userVars, sessVars>>
    \/ GetCurrentUser /\ UNCHANGED <<taskVars, jobVars, userVars, sessVars>>
    \/ /\ Handler
       /\ resp' = ProfileReply
       /\ UNCHANGED <<storeVars, jobVars, userVars, sessVars>>

SpecProfile == Init /\ [][ProfileNext]_vars

\* ---- the token codec called directly: create_access_token and
\* ---- create_refresh_token with every expires_delta they accept
\* expires_delta: None, or a timedelta of any sign
ExpiresDeltas == {{}} \cup {{d} : d \in -1..refresh_token_expires_in}

Issued(op, token) ==
    [NoCall EXCEPT !.op = op,
                   !.out = [NoAnswer EXCEPT !.status = 200, !.access = {token}]]

IssueAccess(subject, expires_delta) ==
    sess' = Issued("create_access_token",
                   CreateAccessToken(subject, expires_delta, secret, now))

IssueRefresh(subject, expires_delta) ==
    sess' = Issued("create_refresh_token",
                   CreateRefreshToken(subject, expires_delta, secret, now))

IssueNext ==
    \/ \E subject \in 1..MaxUid, expires_delta \in ExpiresDeltas :
          IssueAccess(subject, expires_delta) /\ UNCHANGED <<taskVars, jobVars, userVars, authVars>>
    \/ \E subject \in 1..MaxUid, expires_delta \in ExpiresDeltas :
          IssueRefresh(subject, expires_delta) /\ UNCHANGED <<taskVars, jobVars, userVars, authVars>>
    \/ Tick /\ UNCHANGED <<taskVars, jobVars, userVars, sessVars>>
    \/ RotateSecret /\ UNCHANGED <<taskVars, jobVars, userVars, sessVars>>

SpecIssue == Init /\ [][IssueNext]_vars

\* ---- update_task and delete_task of concurrent requests, step by step
TaskRaceNext ==
    \/ \E o \in Owners : CreateBegin(o, "t1", None, "todo", "medium") /\ UNCHANGED <<resp, steady, calls, imp, db, acctVars>>
    \/ \E t \in pending : CreateCommit(t) /\ UNCHANGED <<resp, steady, calls, imp, db, acctVars>>
    \/ \E w \in Threads, op \in {"update_task", "delete_task"}, id \in NoTaskId..MaxId,
          o \in Owners, d \in UpdateInputs :
          /\ ServiceCheck(w, op, id, IF op = "update_task" THEN d ELSE None, o)
          /\ UNCHANGED <<resp, steady, imp, db, acctVars>>
    \/ \E w \in Threads : ServiceMutate(w) /\ UNCHANGED <<resp, steady, imp, db, acctVars>>

SpecTaskRace == Init /\ [][TaskRaceNext]_vars

\* ---- the import request and its background job
ImportSessionNext ==
    \/ \E content \in CsvContents : ImportAccept("u1", content) /\ UNCHANGED <<resp, steady, calls, acctVars>>
    \/ GetDbClose /\ UNCHANGED <<resp, steady, calls, acctVars>>
    \/ JobStart /\ UNCHANGED <<resp, steady, calls, acctVars>>
    \/ ImportRow /\ UNCHANGED <<resp, steady, calls, db, acctVars>>
    \/ JobCommit /\ UNCHANGED <<resp, steady, calls, acctVars>>
    \/ ImportFinish /\ UNCHANGED <<resp, steady, calls, db, acctVars>>

SpecImportSession == Init /\ [][ImportSessionNext]_vars

\* ---- logins while a stored password is not a well-formed hash
MalformedNext ==
    \/ \E n \in Usernames, e \in Emails, p \in Passwords :
          RegisterStart("w1", n, e, p) /\ UNCHANGED <<taskVars, jobVars, authVars, sessVars>>
    \/ RegisterCheckUsername("w1") /\ UNCHANGED <<taskVars, jobVars, authVars, sessVars>>
    \/ RegisterCheckEmail("w1") /\ UNCHANGED <<taskVars, jobVars, authVars, sessVars>>
    \/ RegisterCreate("w1", "s1") /\ UNCHANGED <<taskVars, jobVars, authVars, sessVars>>
    \/ \E id \in 1..MaxUid :
          StoreMalformedHash(id) /\ UNCHANGED <<taskVars, jobVars, authVars, sessVars>>
    \/ \E n \in Usernames, p \in Passwords :
          Login(n, p) /\ UNCHANGED <<taskVars, jobVars, userVars, authVars>>

SpecMalformed == Init /\ [][MalformedNext]_vars

\* ---- repository updates with every combination of supplied fields
MaxEdited == 2
\* tasks created in the runs of partial updates

\* the ids updates are tried on: the first task, beside which the others
\* stand, and an id no task has
EditedIds == {1, MaxEdited + 1}

EditNext ==
    \/ \E o \in Owners :
          /\ nextId <= MaxEdited
          /\ CreateBegin(o, "t1", None, "todo", "medium")
          /\ UNCHANGED <<resp, acctVars, jobVars>>
    \/ \E t \in pending : CreateCommit(t) /\ UNCHANGED <<resp, acctVars, jobVars>>
    \/ \E id \in EditedIds, o \in Owners, d \in PartialUpdates :
          /\ Update(id, d, o)
          /\ resp' = Reply("update", tasks, id, d, o, bootTime)
          /\ UNCHANGED <<acctVars, jobVars>>
    \/ \E id \in 1..MaxEdited + 1, o \in Owners :
          /\ Delete(id, o)
          /\ resp' = Reply("delete", tasks, id, NoUpdate, o, bootTime)
          /\ UNCHANGED <<acctVars, jobVars>>

SpecEdit == Init /\ [][EditNext]_vars

\* ---- a pagination with writes in between, and the rows that stay as they
\* ---- were at its first request
SteadyNext ==
    \/ /\ CreateBegin("u1", "t1", None, "todo", "medium")
       /\ UNCHANGED <<resp, steady, acctVars, imp, calls, db>>
    \/ \E t \in pending :
          CreateCommit(t) /\ UNCHANGED <<resp, steady, acctVars, imp, calls, db>>
    \/ \E id \in 1..MaxId :
          /\ Update(id, SetStatus("done"), "u1")
          /\ steady' = steady \ {id}
          /\ UNCHANGED <<resp, acctVars, imp, calls, db>>
    \/ \E id \in 1..MaxId :
          /\ Delete(id, "u1")
          /\ steady' = steady \ {id}
          /\ UNCHANGED <<resp, acctVars, imp, calls, db>>
    \/ \E k \in MinLimit..MaxLimit, s \in {None, "todo"} :
          /\ StartPagination("u1", k, StatusOnly(s))
          /\ steady' = {t.id : t \in {x \in tasks : /\ x.owner_id = "u1"
                                                    /\ Matches(x, StatusOnly(s))}}
          /\ UNCHANGED <<resp, acctVars, imp, calls, db>>
    \/ ListPage /\ UNCHANGED <<resp, steady, acctVars, imp, calls, db>>

SpecSteady == Init /\ [][SteadyNext]_vars

\* ---- a client that keeps following next_cursor, one row a page, while rows
\* ---- are created and the row its cursor names is deleted
ProgressNext ==
    \/ /\ CreateBegin("u1", "t1", None, "todo", "medium")
       /\ UNCHANGED <<resp, acctVars, jobVars>>
    \/ \E t \in pending : CreateCommit(t) /\ UNCHANGED <<resp, acctVars, jobVars>>
    \/ \E id \in {pg.cursor} \ {NoCursor} :
          Delete(id, "u1") /\ UNCHANGED <<resp, acctVars, jobVars>>
    \/ StartPagination("u1", MinLimit, NoFilters) /\ UNCHANGED <<resp, acctVars, jobVars>>
    \/ ListPage /\ UNCHANGED <<resp, acctVars, jobVars>>

SpecProgress == Init /\ [][ProgressNext]_vars

\* the client sends its next request as long as it holds a next_cursor
ClientStep == ListPage /\ UNCHANGED <<resp, acctVars, jobVars>>

SpecProgressLive == SpecProgress /\ WF_vars(ClientStep)

\* ---- tokens presented after their user was renamed, given another
\* ---- password, or deleted and the username registered again
IdentityNext ==
    \/ \E e \in Emails :
          RegisterStart("w1", "alice", e, "pw1") /\ UNCHANGED <<taskVars, jobVars, authVars, sessVars>>
    \/ RegisterCheckUsername("w1") /\ UNCHANGED <<taskVars, jobVars, authVars, sessVars>>
    \/ RegisterCheckEmail("w1") /\ UNCHANGED <<taskVars, jobVars, authVars, sessVars>>
    \/ RegisterCreate("w1", "s1") /\ UNCHANGED <<taskVars, jobVars, authVars, sessVars>>
    \/ \E id \in 1..MaxUid, d \in UserUpdateInputs \cup {<<None, None, "pw2">>} :
          UpdateStart("w1", id, d[1], d[2], d[3]) /\ UNCHANGED <<taskVars, jobVars, authVars, sessVars>>
    \/ UpdateCheckUsername("w1") /\ UNCHANGED <<taskVars, jobVars, authVars, sessVars>>
    \/ UpdateCheckEmail("w1") /\ UNCHANGED <<taskVars, jobVars, authVars, sessVars>>
    \/ UpdateWrite("w1", "s2") /\ UNCHANGED <<taskVars, jobVars, authVars, sessVars>>
    \/ \E id \in 1..MaxUid : DeleteUser("w1", id) /\ UNCHANGED <<taskVars, jobVars, authVars, sessVars>>
    \/ \E n \in Usernames, p \in Passwords :
          Login(n, p) /\ UNCHANGED <<taskVars, jobVars, userVars, authVars>>
    \/ \E tok \in HeldTokens :
          Arrive("bearer", tok) /\ UNCHANGED <<taskVars, jobVars, userVars, sessVars>>
    \/ BearerHeader /\ UNCHANGED <<taskVars, jobVars, userVars, sessVars>>
    \/ BearerVerify /\ UNCHANGED <<taskVars, jobVars, userVars, sessVars>>
    \/ GetCurrentUser /\ UNCHANGED <<taskVars, jobVars, userVars, sessVars>>
    \/ Handler /\ UNCHANGED <<taskVars, jobVars, userVars, sessVars>>

SpecIdentity == Init /\ [][IdentityNext]_vars

\* ---- a user logs in, logs out, and goes on using the tokens it was given
LogoutNext ==
    \/ RegisterStart("w1", "alice", "a@x", "pw1") /\ UNCHANGED <<taskVars, jobVars, authVars, sessVars>>
    \/ RegisterCheckUsername("w1") /\ UNCHANGED <<taskVars, jobVars, authVars, sessVars>>
    \/ RegisterCheckEmail("w1") /\ UNCHANGED <<taskVars, jobVars, authVars, sessVars>>
    \/ RegisterCreate("w1", "s1") /\ UNCHANGED <<taskVars, jobVars, authVars, sessVars>>
    \/ CreateBegin("u1", "t1", None, "todo", "medium") /\ UNCHANGED <<resp, acctVars, jobVars>>
    \/ \E t \in pending : CreateCommit(t) /\ UNCHANGED <<resp, acctVars, jobVars>>
    \/ Login("alice", "pw1") /\ UNCHANGED <<taskVars, jobVars, userVars, authVars>>
    \/ Logout /\ UNCHANGED <<taskVars, jobVars>>
    \/ \E cookie \in {{}} \cup {{tok} : tok \in HeldTokens} :
          Refresh(cookie) /\ UNCHANGED <<taskVars, jobVars, userVars, authVars>>
    \/ \E tok \in HeldTokens :
          Arrive("bearer", tok) /\ UNCHANGED <<taskVars, jobVars, userVars, sessVars>>
    \/ BearerHeader /\ UNCHANGED <<taskVars, jobVars, userVars, sessVars>>
    \/ BearerVerify /\ UNCHANGED <<taskVars, jobVars, userVars, sessVars>>
    \/ GetCurrentUser /\ UNCHANGED <<taskVars, jobVars, userVars, sessVars>>
    \/ Handler /\ UNCHANGED <<taskVars, jobVars, userVars, sessVars>>
    \/ Tick /\ UNCHANGED <<taskVars, jobVars, userVars, sessVars>>

SpecLogout == Init /\ [][LogoutNext]_vars

\* ------------------------------------------------------------ properties
CeilDiv(n, k) == (n + k - 1) \div k
Ascending(s) == \A i, j \in 1..Len(s) : i < j => s[i] < s[j]

\* the rows a listing of the client is about, in the store as it is now
PgRows == {t \in tasks : t.owner_id = pg.owner /\ Matches(t, pg.fields)}
PgAll == Flatten(pg.pages)

\* C1: with no write during the run, a finished pagination of N >= 1 rows with
\* page size k has ceil(N/k) pages, their concatenation is the owner's rows in
\* ascending id order, each exactly once, and has_more is false on the last
\* page and on no other.
C1_PagesReproduceTheStore ==
    (pg.state = "done" /\ pg.mut = {} /\ Cardinality(PgRows) >= 1) =>
        /\ Len(pg.pages) = CeilDiv(Cardinality(PgRows), pg.limit)
        /\ Ascending(PgAll)
        /\ Range(PgAll) = Ids(PgRows)
        /\ Len(PgAll) = Cardinality(PgRows)
        /\ \A i \in 1..Len(pg.more) : pg.more[i] = (i < Len(pg.more))

C1_Witness ==
    /\ pg.state = "done" /\ pg.mut = {}
    /\ Cardinality(PgRows) = 3 /\ pg.limit = 2
    /\ pg.pages = <<(<<1, 2>>), (<<3>>)>>

\* C2: while only creates and lists interleave, every committed row of the
\* owner at or before the cursor the client holds is a row the client was given.
C2_NoRowAppearsBehindCursor ==
    (pg.state = "running" /\ pg.cursor # NoCursor /\ pg.mut \subseteq {"create", "late"}) =>
        \A t \in PgRows : t.id <= pg.cursor => t.id \in Seen(pg)

\* C3: when the only writes during a pagination are inserts of ids above every
\* existing id, no id is on two pages, no page holds an id at or below the
\* cursor it was asked with, and an inserted row lies after all earlier pages.
C3_StableUnderLargerInserts ==
    (pg.mut \subseteq {"create"}) =>
        /\ Len(PgAll) = Cardinality(Range(PgAll))
        /\ \A i \in 1..Len(pg.pages) :
              \A x \in Range(pg.pages[i]) :
                 /\ x > pg.cursors[i]
                 /\ x \in pg.born =>
                       \A j \in 1..(i - 1) : \A y \in Range(pg.pages[j]) : y < x

C3_Witness ==
    /\ pg.mut = {"create"}
    /\ Len(pg.pages) >= 2
    /\ Range(pg.pages[Len(pg.pages)]) \cap pg.born # {}

\* C4: after a row the client already holds, or the row named by its cursor,
\* was deleted, the next page is the first `limit` of the rows that remain
\* beyond the cursor, ascending, none skipped and none given before.
C4_DeletionLeavesPaginationIntact ==
    (pg.prior # {} /\ Len(pg.pages) >= 1) =>
        LET n == Len(pg.pages)
            page == pg.pages[n]
            R == pg.rem[n]
        IN  /\ Ascending(page)
            /\ Range(page) \subseteq R
            /\ Len(page) = Min(pg.limit, Cardinality(R))
            /\ \A x \in R \ Range(page) : \A y \in Range(page) : y < x
            /\ \A j \in 1..(n - 1) : Range(pg.pages[j]) \cap Range(page) = {}
            /\ \A x \in R : x > pg.cursors[n]

C4_Witness ==
    /\ pg.prior = {"delete_cursor", "delete_seen"}
    /\ pg.pages[Len(pg.pages)] # <<>>

\* the rows a single listing is about: the owner's rows that satisfy the
\* filters and lie beyond the cursor
QRows ==
    {t \in tasks : /\ t.owner_id = q.owner
                   /\ Matches(t, q.fields)
                   /\ (q.cursor = NoCursor \/ t.id > q.cursor)}

\* C5: has_more is true exactly when more than `limit` rows match beyond the
\* cursor; then exactly `limit` rows come back and next_cursor is the id of the
\* last one; otherwise all matching rows come back, has_more is false and
\* next_cursor is null.  So next_cursor is set if and only if has_more.
C5_HasMoreAndNextCursor ==
    q.asked =>
        LET r == q.res
            n == Len(r.data)
        IN  /\ r.has_more = (Cardinality(QRows) > q.limit)
            /\ r.has_more => n = q.limit /\ r.next_cursor = r.data[n].id
            /\ ~r.has_more => /\ Range(r.data) = QRows
                              /\ n = Cardinality(QRows)
                              /\ n <= q.limit
                              /\ r.next_cursor = NoCursor
            /\ (r.next_cursor # NoCursor) = r.has_more

C5_Witness ==
    /\ q.asked /\ q.res.has_more /\ q.cursor = 1
    /\ Cardinality(QRows) = q.limit + 1
    /\ q.fields.status = "todo"

\* C6: every returned row belongs to the requesting owner and satisfies each
\* filter that is set, with inclusive range bounds; and a row of the owner that
\* satisfies them beyond the cursor is left out only by a full page that ends
\* before it.
C6_FiltersAreAConjunction ==
    q.asked =>
        LET r == q.res
            f == q.fields
        IN  /\ \A i \in 1..Len(r.data) :
                 LET t == r.data[i]
                 IN  /\ t \in tasks
                     /\ t.owner_id = q.owner
                     /\ f.status # None => t.status = f.status
                     /\ f.priority # None => t.priority = f.priority
                     /\ f.created_after # NoTime => t.created_at >= f.created_after
                     /\ f.created_before # NoTime => t.created_at <= f.created_before
                     /\ f.updated_after # NoTime => t.updated_at >= f.updated_after
                     /\ f.updated_before # NoTime => t.updated_at <= f.updated_before
            /\ \A t \in QRows \ Range(r.data) :
                 /\ Len(r.data) = q.limit
                 /\ \A i \in 1..Len(r.data) : r.data[i].id < t.id

C6_Witness ==
    /\ q.asked
    /\ q.fields.status = "todo" /\ q.fields.priority = None
    /\ q.fields.updated_after = MaxBoot
    /\ \E i \in 1..Len(q.res.data) : q.res.data[i].updated_at = q.fields.updated_after
    /\ \E t \in tasks : t.owner_id = q.owner /\ ~Matches(t, q.fields)

\* C7: a call made for owner U hands back only rows of U and adds, changes or
\* removes only rows of U; and the owner_id of a row never changes.
C7_OwnerScoped ==
    [][/\ \A t \in resp'.rows : t.owner_id = resp'.caller
       /\ \A t \in (tasks \ tasks') \cup (tasks' \ tasks) : t.owner_id = resp'.caller
       /\ \A t \in tasks : \A u \in tasks' : t.id = u.id => t.owner_id = u.owner_id
      ]_vars

\* an owner asked for, tried to change or tried to delete a row of the other owner
C7_Witness ==
    /\ resp.op \in {"get_by_id", "update", "delete"}
    /\ \E t \in tasks : t.id = resp.task_id /\ t.owner_id # resp.caller
    /\ ~resp.ok /\ resp.rows = {}
    /\ \E t \in tasks : t.owner_id = resp.caller

\* C8: in every state reachable by interleaved register_user and update_user
\* calls, no two stored users share a username and no two share an email.
C8_UsernameEmailUnique ==
    \A u, v \in users :
        u.id # v.id => u.username # v.username /\ u.email # v.email

\* C9: a decode accepts a token exactly when the token's signature was made
\* with the secret the verifier holds at that moment and the token's expiry,
\* if it has one, lies after the moment of decoding.
C9_AcceptedIffSignedAndUnexpired ==
    areq.dec.done =>
        (areq.dec.ok <=>
            /\ areq.token.shape = "jwt"
            /\ areq.token.key = areq.dec.key
            /\ areq.token.exp = NoExp \/ areq.dec.at < areq.token.exp)

\* a correctly signed token passed the bearer check and was turned down by the
\* second decode, made at the very second of its expiry
C9_Witness ==
    /\ areq.pc = "Rejected" /\ areq.stage = "current_user"
    /\ areq.token.key = areq.dec.key
    /\ areq.token.exp = areq.dec.at
    /\ ~areq.dec.ok

\* the bearer token is valid now: signed with the current secret, not expired
TokenValid ==
    /\ areq.token.shape = "jwt"
    /\ areq.token.key = secret
    /\ areq.token.exp = NoExp \/ now < areq.token.exp

\* what one step may do to the request inside the verifier
VerifierStepOk ==
    /\ areq.pc = "Unauthenticated" =>
          /\ areq'.pc \in {"Unauthenticated", "Decoding", "Unprocessable"}
          /\ areq.hdr = "bearer" => areq'.pc # "Unprocessable"
    /\ areq.pc = "Decoding" => areq'.pc \in {"Decoding", "Authenticated", "Rejected"}
    /\ areq.pc \in {"Authenticated", "Rejected"} =>
          \/ areq'.pc = "Unauthenticated"
          \/ /\ areq'.pc = areq.pc
             /\ areq'.user = areq.user
             /\ areq'.status = areq.status
    /\ (areq.pc = "Decoding" /\ areq'.pc = "Authenticated") =>
          /\ TokenValid
          /\ \E u \in users : u.id = areq.token.sub /\ areq'.user = {u}
    /\ (areq.pc = "Decoding" /\ areq.stage = "current_user" /\ areq' # areq
          /\ TokenValid /\ \E u \in users : u.id = areq.token.sub) =>
          areq'.pc = "Authenticated"
    /\ areq'.pc = "Rejected" => areq'.status = 401 /\ areq'.user = {}
    /\ areq'.ran => areq'.pc = "Authenticated" /\ areq.pc = "Authenticated"

C12_LoginIffCredentialsMatch ==
    [][(sess' # sess /\ sess'.op = "login") =>
          LET match == {u \in users : /\ u.username = sess'.username
                                       /\ VerifyPassword(sess'.password, u.password)}
              out == sess'.out
          IN  /\ (out.status = 200) <=> (match # {})
              /\ out.status = 200 =>
                    /\ \E u \in match : out.user_id = u.id
                    /\ out.access # {} /\ out.refresh # {}
                    /\ \A tok \in out.access \cup out.refresh : tok.sub = out.user_id
      ]_vars

\* C13: a decoding function gives its caller the same outcome for every token
\* it rejects, malformed, wrongly signed or expired: two rejections by the
\* same function, one after the other, cannot be told apart.
C13_RejectionsAlike ==
    [][(/\ sess.op \in DecodeEntries /\ sess'.op = sess.op
        /\ ~sess.payload.valid /\ ~sess'.payload.valid)
       => (sess'.out = sess.out /\ sess'.payload = sess.payload)
      ]_vars

\* the token is one the program accepts now: a JWT signed with the current
\* secret, not expired, whose subject is the id of a stored user
Acceptable(tok) ==
    /\ tok.shape = "jwt"
    /\ tok.key = secret
    /\ tok.exp = NoExp \/ now < tok.exp
    /\ \E u \in users : u.id = tok.sub

\* a step that is a call of the refresh endpoint
RefreshStep == sess' # sess /\ sess'.op = "refresh"

\* C14: refresh is an operation of its own. Given a token that decodes and
\* whose subject is a stored user it answers 200 with an access and a refresh
\* token made now for that subject, and sets the refresh token as the cookie;
\* with no cookie, a token that does not decode or a subject that is no stored
\* user it answers 401 with no token and no cookie. Verifying a bearer token
\* never issues anything.
C14_RefreshOutcome ==
    [][/\ RefreshStep =>
            LET out == sess'.out
                good == \E tok \in sess'.presented : Acceptable(tok)
            IN  /\ good =>
                      /\ out.status = 200
                      /\ \A tok \in sess'.presented :
                            /\ out.user_id = tok.sub
                            /\ out.access =
                                 {Token("jwt", secret, tok.sub, now + access_token_expires_in)}
                            /\ out.refresh =
                                 {Token("jwt", secret, tok.sub, now + refresh_token_expires_in)}
                      /\ sess'.cookie = out.refresh
                /\ ~good =>
                      /\ out.status = 401
                      /\ out.access = {} /\ out.refresh = {}
                      /\ sess'.cookie = {}
                /\ users' = users
       /\ areq' # areq => sess' = sess
      ]_vars

\* a refresh answered with a new pair for the subject of the token presented
C14_Witness ==
    /\ sess.op = "refresh" /\ sess.out.status = 200
    /\ \E tok \in sess.presented : tok.sub = sess.out.user_id
    /\ sess.cookie = sess.out.refresh /\ sess.cookie # {}

\* the id was given to a user that is stored no more
Deleted(id) ==
    /\ id \in 1..(nextUid - 1)
    /\ \A u \in users : u.id # id

\* C15: once a user is deleted, a token with that user as subject is turned
\* down by the refresh endpoint and by get_current_user, with 401, even when
\* it is correctly signed and not expired; and a deleted id stays deleted.
C15_DeletedSubjectRejected ==
    [][/\ (RefreshStep /\ \E tok \in sess'.presented : Deleted(tok.sub)) =>
            /\ sess'.out.status = 401
            /\ sess'.out.access = {} /\ sess'.out.refresh = {}
       /\ (/\ areq.pc = "Decoding" /\ areq.stage = "current_user" /\ areq' # areq
           /\ Deleted(areq.token.sub)) =>
            /\ areq'.pc = "Rejected" /\ areq'.status = 401 /\ areq'.user = {}
       /\ (areq.pc = "Rejected" /\ Deleted(areq.token.sub) /\ areq'.token = areq.token) =>
            areq'.pc \in {"Rejected", "Unauthenticated"}
       /\ \A id \in 1..MaxUid : Deleted(id) => Deleted(id)'
      ]_vars

\* a token of a deleted user, signed with the current secret and not expired,
\* was turned down by the refresh endpoint and, as a bearer token, by
\* get_current_user
C15_Witness ==
    /\ sess.op = "refresh" /\ sess.out.status = 401
    /\ \E tok \in sess.presented :
          /\ tok.shape = "jwt" /\ tok.key = secret /\ now < tok.exp
          /\ Deleted(tok.sub)
    /\ areq.pc = "Rejected" /\ areq.stage = "current_user" /\ areq.dec.ok
    /\ Deleted(areq.token.sub) /\ now < areq.token.exp

\* C16: nothing is revoked. A refresh token that a refresh has just replaced
\* by another is accepted again when it is presented again, as long as it is
\* not expired and its user is stored.
C16_RotatedTokenStillAccepted ==
    [][(/\ RefreshStep /\ sess'.replay
        /\ \E tok \in sess'.presented : Acceptable(tok))
       => /\ sess'.out.status = 200
          /\ sess'.out.access # {} /\ sess'.out.refresh # {}
          /\ \A tok \in sess'.presented : sess'.out.user_id = tok.sub
      ]_vars

\* the token rotated by the call before was presented again and accepted
C16_Witness ==
    /\ sess.op = "refresh" /\ sess.replay
    /\ sess.out.status = 200
    /\ sess.out.refresh # sess.presented

\* C17: access and refresh tokens have the same fields and none that tells the
\* kind. A token handed out as an access token is accepted by the refresh
\* endpoint whenever it decodes and its subject is stored, and a token handed
\* out as a refresh token authenticates a request as a bearer token.
C17_KindsInterchangeable ==
    [][/\ \A a \in sess'.out.access, r \in sess'.out.refresh :
            /\ DOMAIN a = DOMAIN r
            /\ DOMAIN a = {"shape", "key", "sub", "exp"}
       /\ (/\ RefreshStep /\ sess'.kinds = {"access"}
           /\ \E tok \in sess'.presented : Acceptable(tok)) =>
            /\ sess'.out.status = 200
            /\ sess'.out.access # {} /\ sess'.out.refresh # {}
            /\ \A tok \in sess'.presented : sess'.out.user_id = tok.sub
       /\ (/\ areq.pc = "Decoding" /\ areq.stage = "current_user" /\ areq' # areq
           /\ areq.token \in sess.out.refresh /\ areq.token \notin sess.out.access
           /\ Acceptable(areq.token)) =>
            /\ areq'.pc = "Authenticated"
            /\ \A u \in areq'.user : u.id = areq.token.sub
      ]_vars

\* the refresh endpoint accepted what had been handed out as an access token,
\* and the refresh token it answered with authenticated a request
C17_Witness ==
    /\ sess.op = "refresh" /\ sess.kinds = {"access"} /\ sess.out.status = 200
    /\ areq.pc = "Authenticated"
    /\ areq.token \in sess.out.refresh /\ areq.token \notin sess.out.access

\* C18: get_task, update_task and delete_task given the id of a task of
\* another user answer exactly as for an id no task has, 404 'Task not found'
\* with no row, and leave the store as it was.
C18_ForeignTaskIsNotFound ==
    [][(/\ resp' # resp
        /\ resp'.op \in {"get_task", "update_task", "delete_task"}
        /\ resp'.task_id # NoTaskId
        /\ \A t \in tasks : t.id = resp'.task_id => t.owner_id # resp'.caller)
       => /\ resp' = TaskError(resp'.op, resp'.task_id, resp'.caller, 404, "Task not found")
          /\ tasks' = tasks
      ]_vars

\* an update of another user's task was answered 404 and the task is as it was
C18_Witness ==
    /\ resp.op = "update_task" /\ resp.status = 404
    /\ \E t \in tasks : /\ t.id = resp.task_id /\ t.owner_id # resp.caller
                          /\ t.status = "todo"

\* C19: the limit get_list is called with is inside the range of the route,
\* 1 to 100 for GET /tasks, with 20 when none is given, and 1 to 1000 for the
\* export; a limit outside the range never reaches the repository; and an
\* export asked with a limit from 101 to 1000 is served with that limit.
C19_LimitInRange ==
    /\ (resp.op = "get_tasks" /\ resp.queried) =>
          /\ resp.limit \in MinLimit..MaxPageLimit
          /\ resp.param = {} => resp.limit = DefaultLimit
          /\ resp.param # {} => resp.param = {resp.limit}
    /\ (resp.op = "export_tasks_csv" /\ resp.queried) =>
          resp.limit \in MinLimit..ExportCeiling
    /\ (resp.op = "export_tasks_csv" /\ resp.param # {}) =>
          \A n \in resp.param :
              n \in (MaxPageLimit + 1)..ExportCeiling =>
                  /\ resp.status = 200 /\ resp.queried
                  /\ resp.limit = n

\* the k-th row of the file is one the import makes a task of
ValidRow(k) == ValidateCsvRow(imp.rows[k]) /\ RowToTaskCreate(imp.rows[k]).ok

UserOps == {"create_user", "update_user", "get_all_users", "get_current_user_profile"}

\* C21: no response carries the password or its hash. The users in the body
\* of a register, update, list or profile response have the fields id,
\* username and email and no other, and a token response has a user id and
\* tokens whose fields are those of a token.
C21_NoPasswordInResponses ==
    /\ resp.op \in UserOps =>
          \A b \in resp.body : /\ "password" \notin DOMAIN b
                                /\ DOMAIN b = {"id", "username", "email"}
    /\ sess.op = "login" =>
          /\ DOMAIN sess.out = {"status", "detail", "user_id", "access", "refresh"}
          /\ \A tok \in sess.out.access \cup sess.out.refresh :
                DOMAIN tok = {"shape", "key", "sub", "exp"}

\* the profile of a user that is stored with a hash was answered without it,
\* after a login that answered with tokens
C21_Witness ==
    /\ resp.op = "get_current_user_profile"
    /\ \E b \in resp.body : \E u \in users :
          /\ u.id = b.id /\ u.password.scheme = "argon2"
          /\ "password" \in DOMAIN u
    /\ sess.op = "login" /\ sess.out.status = 200

\* C22: every token create_access_token or create_refresh_token issues has
\* an expiry strictly later than the time it is issued at, whatever
\* expires_delta the function is called with.
C22_ExpiryAfterIssuance ==
    [][(sess' # sess /\ sess'.op \in {"create_access_token", "create_refresh_token"})
         => \A tok \in sess'.out.access : tok.exp > now]_vars

\* C23: a finished update_task either raised or returned the updated task,
\* and a finished delete_task either raised or returned True; what they
\* raise for a task that is not there is 404, in every interleaving.
C23_UpdateDeleteNeverReturnNothing ==
    \A w \in Threads :
        LET c == calls[w]
        IN  c.pc = "done" =>
              /\ \A x \in c.raised : x.status \in {400, 404}
              /\ (c.op = "update_task" /\ c.raised = {}) =>
                    \E t \in c.rows : t.id = c.task_id /\ t.owner_id = c.owner_id
              /\ (c.op = "delete_task" /\ c.raised = {}) => c.deleted

\* C24: the background import shares no session with the request that
\* started it: the session its service was built on, and every session its
\* task creations ran on, is not the one get_db made for the request.
C24_JobHasItsOwnSession ==
    /\ \A j \in db.scheduled : j.session \notin db.request
    /\ db.job \cap db.request = {}
    /\ db.used \cap db.request = {}

\* C25: a login never ends in an unhandled exception: its answer is the
\* tokens or the generic 401, also when the stored password of the user is
\* not a well-formed hash.
C25_MalformedHashIsGeneric401 ==
    [][sess' # sess /\ sess'.op = "login" =>
         /\ sess'.out.status \in {200, 401}
         /\ (\E u \in GetByUsername(users, sess'.username) : VerifyRaises(u.password)) =>
               sess'.out = Unauthorized("Invalid username or password")]_vars

\* the fields TaskUpdate can carry
UpdateFields == {"title", "description", "priority", "status"}

\* what an update of task_id by owner_id with data must have done
PartialReplacement(task_id, data, owner_id) ==
    LET found == {t \in tasks : t.id = task_id /\ t.owner_id = owner_id}
    IN  IF found = {}
        THEN tasks' = tasks /\ ~resp'.ok /\ resp'.rows = {}
        ELSE \E t \in found : \E n \in tasks' :
               /\ tasks' \ {n} = tasks \ {t}
               /\ resp'.rows = {n}
               /\ n.id = t.id /\ n.owner_id = t.owner_id /\ n.created_at = t.created_at
               /\ \A f \in UpdateFields :
                     n[f] = IF data[f] # None THEN data[f] ELSE t[f]

\* C26: an update replaces exactly the supplied fields of the one task and
\* keeps its other fields, its id, owner_id and created_at and every other
\* task; an update or delete of an id the owner has no task with returns
\* None / False and leaves the store unchanged.
C26_UpdateIsPartialReplacement ==
    [][/\ resp'.op = "update" =>
            \A d \in PartialUpdates :
               (/\ resp' = Reply("update", tasks, resp'.task_id, d, resp'.caller, bootTime)
                /\ Update(resp'.task_id, d, resp'.caller))
                  => PartialReplacement(resp'.task_id, d, resp'.caller)
       /\ resp'.op = "delete" =>
            ((/\ resp' = Reply("delete", tasks, resp'.task_id, NoUpdate, resp'.caller, bootTime)
              /\ Delete(resp'.task_id, resp'.caller)
              /\ \A t \in tasks : ~(t.id = resp'.task_id /\ t.owner_id = resp'.caller))
                => (tasks' = tasks /\ ~resp'.ok))]_vars

\* two fields of a task were replaced and the two others kept, beside another
\* task, and an update of an id the owner has no task with returned None
C26_Witness ==
    /\ \E t \in tasks : \E u \in tasks :
          /\ t.title = "t2" /\ t.priority = "high"
          /\ t.description = None /\ t.status = "todo"
          /\ u.id # t.id
    /\ resp.op = "update" /\ ~resp.ok

\* the pages of the client that hold the id
PagesWith(id) == {i \in 1..Len(pg.pages) : id \in Range(pg.pages[i])}

\* C27: a task that is there for the owner and matches the filters, untouched,
\* from the first request of a pagination on is on no two pages and not
\* twice on a page, is behind no cursor without having been returned, and is
\* on exactly one page when the pagination is done, whatever writes to other
\* tasks come in between.
C27_SteadyRowOnExactlyOnePage ==
    \A id \in steady :
        /\ Cardinality(PagesWith(id)) <= 1
        /\ Cardinality({i \in 1..Len(PgAll) : PgAll[i] = id}) <= 1
        /\ (pg.cursor # NoCursor /\ id <= pg.cursor) => PagesWith(id) # {}
        /\ pg.state = "done" => Cardinality(PagesWith(id)) = 1

\* a pagination of two pages or more is done, with a commit of a lower id, an
\* update and a delete of other tasks in between, and a row that stayed
C27_Witness ==
    /\ pg.state = "done" /\ Len(pg.pages) >= 2
    /\ {"late", "update", "delete"} \subseteq pg.mut
    /\ steady # {}

\* the cursor page i of the client came back with: the one page i + 1 was
\* asked with, or the one the client holds
NextCursorOf(i) == IF i < Len(pg.pages) THEN pg.cursors[i + 1] ELSE pg.cursor

\* every next_cursor handed out is above the cursor its page was asked with
\* and above every id on the pages before
CursorAdvances ==
    \A i \in 1..Len(pg.pages) :
        NextCursorOf(i) # NoCursor =>
            /\ NextCursorOf(i) > pg.cursors[i]
            /\ \A j \in 1..(i - 1) : \A x \in Range(pg.pages[j]) : x < NextCursorOf(i)

\* C28: a next_cursor is strictly greater than the cursor passed in and than
\* every id returned on earlier pages, and a client that follows next_cursor
\* reaches a page with has_more = false.
C28_PaginationTerminates ==
    /\ []CursorAdvances
    /\ (pg.state = "running") ~> (pg.state = "done")

\* a pagination ended on its third page, after rows were deleted and
\* committed during it
C28_Witness ==
    /\ pg.state = "done" /\ Len(pg.pages) = 3
    /\ pg.more = <<TRUE, TRUE, FALSE>>
    /\ {"delete", "create"} \subseteq pg.mut

\* the user an Authenticated request carries is the one its token names
CarriesItsSubject ==
    areq.pc = "Authenticated" =>
        /\ areq.user # {}
        /\ \A u \in areq.user : u.id = areq.token.sub

\* a login hands out tokens whose subject is the id it answers with, which is
\* the id of a user that had the username
IssuedToTheNamed ==
    (sess.op = "login" /\ sess.out.status = 200) =>
        /\ sess.out.user_id \in sess.named
        /\ \A tok \in sess.out.access \cup sess.out.refresh : tok.sub = sess.out.user_id

\* C29: a token authenticates as the user it was issued to and as no other:
\* the user of an Authenticated request has the id that is the subject of
\* its token, a token's subject is the id of the user whose login it was
\* issued at, and an id stays with its user: a stored user keeps its id and
\* the id of a deleted user is given to no other, also after renames,
\* password changes and registering a deleted user's name again.
C29_TokenAuthenticatesItsSubjectOnly ==
    /\ [](CarriesItsSubject /\ IssuedToTheNamed)
    /\ [][\A id \in 1..MaxUid : Deleted(id) => Deleted(id)']_vars

\* a token issued to user 1 at a login as alice authenticated as user 1, now
\* named bob, while alice is the name of user 2
C29_Witness ==
    /\ areq.pc = "Authenticated" /\ areq.token.sub = 1
    /\ sess.op = "login" /\ sess.username = "alice" /\ sess.out.user_id = 1
    /\ areq.token \in sess.out.access
    /\ \A u \in areq.user : u.username = "bob"
    /\ \E u \in users : u.id = 2 /\ u.username = "alice"

\* C30: a logout leaves the users, the tasks and the signing key as they
\* were and deletes the cookie, and every token the client was given before
\* gets from verification, from get_current_user and from the refresh
\* endpoint the answer it got before the logout.
C30_LogoutChangesNoServerState ==
    [][(sess' # sess /\ sess'.op = "logout") =>
         /\ users' = users /\ nextUid' = nextUid
         /\ tasks' = tasks /\ pending' = pending /\ nextId' = nextId
         /\ secret' = secret /\ now' = now
         /\ sess'.cookie = {}
         /\ \A tok \in HeldTokens :
               /\ tok \in HeldTokens'
               /\ VerifyJwt(tok, secret', now') = VerifyJwt(tok, secret, now)
               /\ CurrentUser(tok, users', secret', now') = CurrentUser(tok, users, secret, now)
               /\ RefreshAccessToken(tok, users', secret', now').status
                     = RefreshAccessToken(tok, users, secret, now).status]_vars

\* after a logout with tasks in the store, a token given out before it was
\* accepted as a bearer token, and the refresh token given out before it
\* still refreshes
C30_Witness ==
    /\ sess.op = "logout" /\ sess.cookie = {}
    /\ tasks # {}
    /\ areq.pc = "Authenticated" /\ areq.token \in sess.presented
    /\ \E tok \in sess.presented :
          RefreshAccessToken(tok, users, secret, now).status = 200

====
